---- MODULE Spec2Model ----
(***************************************************************************)
(* Model of the Snapmaker 2.0 CNC postprocessor (Snapmaker_2_CNC_post.py): *)
(* the Gcode stream (a list of Command, Comment, Header and raw str        *)
(* lines) and its rendering, Postprocessor.addCommand,                     *)
(* Postprocessor.parseObject, the canned drill cycle translation           *)
(* Postprocessor.translateDrill and Postprocessor.export.                  *)
(*                                                                         *)
(* Lengths are integers counting half millimetres, so that the chip space  *)
(* drillStep * 0.5 of a peck cycle whose Q is a whole number of            *)
(* millimetres is exact, as it is in the floating point arithmetic of the  *)
(* program.  Speeds are integers.  A value that may be None is a sequence: *)
(* <<>> is None and <<v>> is the value v.                                  *)
(***************************************************************************)
EXTENDS Integers, Sequences, FiniteSets, TLC

VARIABLES
    conf,              \* Postprocessor.conf, shared with Gcode.conf
    gcode,             \* Postprocessor.gcode: the list of lines
    drillRetractMode,  \* Gcode.drillRetractMode
    pc,                \* "idle", or "peck" inside the while loop of translateDrill
    drill,             \* locals of the latest translateDrill call
    emitted,           \* the addCommand calls made by the latest translateDrill call
    pecks,             \* iterations of the peck loop made by the running cycle
    call,              \* the latest operation invoked, its argument and its outcome
    err,               \* "" or the exception that left the operation uncaught
    export,            \* the position of Postprocessor.export and its locals
    marks,             \* for each line of the stream, the part of export that appended it
    output,            \* data = str(self.gcode), None until export computes it
    values             \* Snapmaker.values, the settings of the newer postprocessor

\* the state of a Postprocessor used through its methods
pvars == <<conf, gcode, drillRetractMode, pc, drill, emitted, pecks, call, err>>

\* the state of an export under way
xvars == <<export, marks, output>>

\* the state of the postprocessor of snapmaker_post.py
svars == <<values>>

vars == <<conf, gcode, drillRetractMode, pc, drill, emitted, pecks, call, err,
          export, marks, output, values>>

----------------------------------------------------------------------------
(* Bounds of the model *)

\* an operation is invoked only while the stream holds at most MaxLines lines
MaxLines == 2
\* iterations of the peck loop that are followed
MaxPecks == 4

----------------------------------------------------------------------------
(* Values *)

None == <<>>
Some(v) == <<v>>

\* a length given in millimetres
mm(n) == 2 * n

\* a parameter dict is a set of <<letter, value>> pairs, one per letter
Has(P, l) == \E p \in P : p[1] = l
Get(P, l) == (CHOOSE p \in P : p[1] = l)[2]

\* the kinds of line of the stream
Command(name, parameters) ==
    [type |-> "Command", Name |-> name, Parameters |-> parameters, text |-> <<>>]
Comment(text) ==
    [type |-> "Comment", Name |-> "", Parameters |-> {}, text |-> text]
Header(text) ==
    [type |-> "Header", Name |-> "", Parameters |-> {}, text |-> text]
Str(text) ==
    [type |-> "str", Name |-> "", Parameters |-> {}, text |-> text]

DRILL_RETRACT_MODE == "G98"

GCODE_COMMANDS ==
    {"G0", "G00", "G1", "G01", "G2", "G02", "G3", "G03", "G4", "G04", "G17",
     "G21", "G28", "G54", "G80", "G90", "M3", "M03", "M4", "M04", "M5", "M05",
     "M17", "M18", "M25", "M76", "M81"}

----------------------------------------------------------------------------
(* Equality of lines *)

\* Command.__eq__ with names compared only: a plausible slip
Command_eq_NameOnly(self, other) ==
    /\ other.type = "Command"
    /\ self.Name = other.Name

\* Command.__eq__(self, other): other.Name raises AttributeError on a str
Command_eq(self, other) ==
    /\ other.type = "Command"
    /\ self.Name = other.Name
    /\ self.Parameters = other.Parameters

\* a == b as Python evaluates it on two lines: Command.__eq__ when a is a
\* Command, str.__eq__ on two strings (Comment and Header are str), and the
\* reflected Command.__eq__(b, a), which is False, for a str and a Command
PyEq(a, b) ==
    IF a.type = "Command" THEN Command_eq(a, b)
    ELSE IF b.type = "Command" THEN Command_eq(b, a)
    ELSE a.text = b.text

----------------------------------------------------------------------------
(* Gcode *)

\* Gcode.append(line) on the list g under configuration c
GcodeAppend(g, c, line) ==
    IF c.remove_duplicates /\ Len(g) > 0 /\ PyEq(g[Len(g)], line)
    THEN g
    ELSE Append(g, line)

\* Gcode.lastParameter(param, *names, start, default).  The for loop runs
\* over range(start % len, 0, -1) and returns in its first iteration; when
\* the range is empty the function falls off its end and returns None.
lastParameter(g, param, names, start, default) ==
    IF Len(g) = 0 THEN default
    ELSE LET i == start % Len(g) IN
         IF i <= 0 THEN None
         ELSE LET line == g[i + 1] IN
              IF /\ line.type = "Command"
                 /\ (names = {} \/ line.Name \in names)
                 /\ Has(line.Parameters, param)
              THEN Some(Get(line.Parameters, param))
              ELSE default

\* Gcode.lastCommand(*names, start, default), same loop
lastCommand(g, names, start, default) ==
    IF Len(g) = 0 THEN default
    ELSE LET i == start % Len(g) IN
         IF i <= 0 THEN None
         ELSE LET line == g[i + 1] IN
              IF line.type = "Command" /\ line.Name \in names
              THEN Some(line)
              ELSE default

\* the line kinds matched with isinstance, Comment and Header being
\* subclasses of str: a plausible slip
types_Isinstance(c) == {"Command", "str", "Header", "Comment"}

\* Gcode.types, set in Gcode.__init__
types(c) ==
    {"Command", "str"} \cup (IF c.header THEN {"Header"} ELSE {})
                       \cup (IF c.comments THEN {"Comment"} ELSE {})

RECURSIVE Select(_, _)
Select(g, T) ==
    IF g = <<>> THEN <<>>
    ELSE IF g[1].type \in T THEN <<g[1]>> \o Select(Tail(g), T)
    ELSE Select(Tail(g), T)

\* the lines Gcode.__str__ renders, in order
Rendered(g, c) == Select(g, types(c))

----------------------------------------------------------------------------
(* Rapid speeds and addCommand *)

\* an operation object: its ToolController, when it has one, carries the
\* rapid speeds; obj=None is NoObj
NoObj == [hasToolController |-> FALSE, VertRapid |-> 0, HorizRapid |-> 0]
Obj(v, h) == [hasToolController |-> TRUE, VertRapid |-> v, HorizRapid |-> h]

\* Postprocessor.job before any export
NoJob == None

Min(a, b) == IF a <= b THEN a ELSE b

\* getRapidSpeeds(obj, job): <<vRapidSpeed, hRapidSpeed>>
getRapidSpeeds(obj, job) ==
    IF obj.hasToolController THEN <<Some(obj.VertRapid), Some(obj.HorizRapid)>>
    ELSE IF job # None THEN <<Some(job[1].VertRapid), Some(job[1].HorizRapid)>>
    ELSE <<None, None>>

\* the horizontal rapid speed given to every rapid move, its Z not looked
\* at: a plausible slip
RapidFeed_Horizontal(name, parameters, obj, job) ==
    LET rapid == getRapidSpeeds(obj, job)
        hRapidSpeed == rapid[2]
    IN  IF name \in {"G0", "G00"} /\ ~Has(parameters, "F") /\ hRapidSpeed # None
        THEN Some(hRapidSpeed[1])
        ELSE None

\* the F that addCommand adds to cmd after it was appended (None: no F)
RapidFeed(name, parameters, obj, job) ==
    LET rapid == getRapidSpeeds(obj, job)
        vRapidSpeed == rapid[1]
        hRapidSpeed == rapid[2]
    IN  IF name \in {"G0", "G00"} /\ ~Has(parameters, "F")
        THEN IF hRapidSpeed # None /\ (Has(parameters, "X") \/ Has(parameters, "Y"))
             THEN IF Has(parameters, "Z")
                  THEN Some(Min(vRapidSpeed[1], hRapidSpeed[1]))
                  ELSE Some(hRapidSpeed[1])
             ELSE IF Has(parameters, "Z") /\ vRapidSpeed # None
                  THEN Some(vRapidSpeed[1])
                  ELSE None
        ELSE None

\* Command.addParameter(parameter, value)
addParameter(cmd, parameter, value) ==
    [cmd EXCEPT !.Parameters = @ \cup {<<parameter, value>>}]

\* Postprocessor.addCommand(name, obj, **parameters) on the list g: a new
\* Command is appended first and receives its F afterwards, so the line in
\* the stream changes when it was appended, and only the discarded object
\* changes when it was suppressed
addCommand(g, c, name, parameters, obj, job) ==
    LET cmd == Command(name, parameters)
        g1  == GcodeAppend(g, c, cmd)
        F   == RapidFeed(name, parameters, obj, job)
    IN  IF Len(g1) > Len(g) /\ F # None
        THEN [g1 EXCEPT ![Len(g1)] = addParameter(cmd, "F", F[1])]
        ELSE g1

----------------------------------------------------------------------------
(* translateDrill *)

Axes == {"X", "Y", "Z"}
CycleNames == {"G81", "G82", "G83"}

\* the parameters translateDrill reads before anything else (lines 431-435)
HasCycleParameters(cmd) ==
    \A l \in {"X", "Y", "Z", "R", "F"} : Has(cmd.Parameters, l)

\* position = {param: self.gcode.lastParameter(param, default=0) ...}
Position(g) == [a \in Axes |-> lastParameter(g, a, {}, -1, Some(0))]

\* the rejection test that never rejects: a plausible slip
Rejected_Never(cmd) == FALSE

\* if drillR < drillZ: PrintError, return []
Rejected(cmd) == Get(cmd.Parameters, "R") < Get(cmd.Parameters, "Z")

\* self.gcode.drillRetractMode == "G98" and position['Z'] > drillR
RetractZ(mode, posZ, drillR) ==
    IF PyEq(mode, Str(<<"G98">>)) /\ posZ > drillR THEN posZ ELSE drillR

\* a chip space taken below the peck instead of above it: a plausible slip
chipSpace_Below(drillStep) == 0 - drillStep

\* chipSpace = drillStep * 0.5
chipSpace(drillStep) == drillStep \div 2

\* one addCommand call of translateDrill on the context x = [g, out]: g is
\* the stream, out the calls made so far
Emit(x, c, name, parameters, obj) ==
    [g   |-> addCommand(x.g, c, name, parameters, obj, NoJob),
     out |-> Append(x.out, Command(name, parameters))]

\* lines 449-457: retract if necessary, move to the hole, go down to R
Approach(g, c, cmd, obj, position, retractZ) ==
    LET P  == cmd.Parameters
        x0 == [g |-> g, out |-> <<>>]
        x1 == IF position["Z"][1] < retractZ
              THEN Emit(x0, c, "G0", {<<"Z", retractZ>>}, obj)
              ELSE x0
        x2 == IF position["X"][1] # Get(P, "X") /\ position["Y"][1] # Get(P, "Y")
              THEN Emit(x1, c, "G0", {<<"X", Get(P, "X")>>, <<"Y", Get(P, "Y")>>}, obj)
              ELSE x1
    IN  Emit(x2, c, "G0", {<<"Z", Get(P, "R")>>}, obj)

\* line 484: the final rapid move to retractZ
FinalRetract(x, c, obj, retractZ) == Emit(x, c, "G0", {<<"Z", retractZ>>}, obj)

\* the feed move of the cycle body
Feed(x, c, z, f) == Emit(x, c, "G1", {<<"Z", z>>, <<"F", f>>}, NoObj)

\* one iteration of the while loop (lines 470-483) entered with
\* nextStopZ >= drillZ: the context after it, the next nextStopZ and whether
\* the loop was left by a break
PeckIteration(x, c, cmd, obj, nextStopZ) ==
    LET P         == cmd.Parameters
        drillZ    == Get(P, "Z")
        drillR    == Get(P, "R")
        drillF    == Get(P, "F")
        drillStep == Get(P, "Q")
        x1 == Feed(x, c, nextStopZ, drillF)
        x2 == Emit(x1, c, "G0", {<<"Z", drillR>>}, obj)
        x3 == Emit(x2, c, "G0", {<<"Z", nextStopZ + chipSpace(drillStep)>>}, obj)
    IN  IF nextStopZ - drillStep >= drillZ
        THEN [x |-> x3, nextStopZ |-> nextStopZ - drillStep, break |-> FALSE]
        ELSE IF nextStopZ = drillZ
        THEN [x |-> x1, nextStopZ |-> nextStopZ, break |-> TRUE]
        ELSE [x |-> Feed(x3, c, drillZ, drillF), nextStopZ |-> nextStopZ, break |-> TRUE]

----------------------------------------------------------------------------
(* Rendering: Command.__str__, Comment.__str__ and Gcode.__str__ *)

MAX_SPINDLE_SPEED == 12000
MIN_SPINDLE_SPEED == 6000

GCODE_PARAMETERS ==
    <<"X", "Y", "Z", "A", "B", "C", "I", "J", "F", "S", "T", "Q", "R", "L",
      "H", "D", "P", "O">>

Max(a, b) == IF a >= b THEN a ELSE b
Abs(a) == IF a < 0 THEN 0 - a ELSE a

RECURSIVE Pow10(_)
Pow10(p) == IF p = 0 THEN 1 ELSE 10 * Pow10(p - 1)

\* a / b for a >= 0 and b > 0 rounded to the nearest integer, a tie going to
\* the even one, as the f format rounds the value it is given
RoundHalfEven(a, b) ==
    LET q == a \div b
        r == a % b
    IN  IF 2 * r < b THEN q
        ELSE IF 2 * r > b THEN q + 1
        ELSE IF q % 2 = 0 THEN q ELSE q + 1

\* the decimal digits of n on exactly p places
Digits(n, p) == [i \in 1..p |-> (n \div Pow10(p - i)) % 10]

\* f'{num/den:.{precision}f}': the sign, the integer part and the digits
\* written after the decimal point
FixedPoint(num, den, precision) ==
    LET N == RoundHalfEven(Abs(num) * Pow10(precision), den)
    IN  [neg  |-> num < 0,
         int  |-> N \div Pow10(precision),
         frac |-> Digits(N % Pow10(precision), precision)]

\* a fixed number of decimals whatever the precision: a plausible slip
FormatFixed_Three(num, den, precision) == FixedPoint(num, den, 3)

\* the f format at the class precision, as lines 217, 222, 229, 231 and 233
\* apply it
FormatFixed(num, den, precision) == FixedPoint(num, den, precision)

\* convertPosition(position, units) of a length counted in half millimetres,
\* as a fraction <<numerator, denominator>> of the output unit (1 in = 25.4 mm)
convertPosition(position, units) ==
    IF units = "mm" THEN <<position, 2>> ELSE <<5 * position, 254>>

\* convertSpeed(speed, units): from the unit per second to the unit per minute
convertSpeed(speed, units) ==
    IF units = "mm" THEN <<60 * speed, 1>> ELSE <<300 * speed, 127>>

\* speedAsPercent(speed)
speedAsPercent(speed) ==
    (Max(Min(speed, MAX_SPINDLE_SPEED), MIN_SPINDLE_SPEED) * 100)
        \div MAX_SPINDLE_SPEED

\* one written parameter: the letter, then a number in fixed notation
\* (kind "fixed") or the value as Python writes it (kind "raw")
FixedToken(letter, q, precision) ==
    LET f == FormatFixed(q[1], q[2], precision)
    IN  [letter |-> letter, kind |-> "fixed", neg |-> f.neg, int |-> f.int,
         frac |-> f.frac]
RawToken(letter, value) ==
    [letter |-> letter, kind |-> "raw", neg |-> value < 0, int |-> Abs(value),
     frac |-> <<>>]

\* the S of a dwell converted like a speed, the branch of G4 and G04 left
\* out: a plausible slip
ParameterTokens_DwellAsSpeed(cmd, param, units, precision) ==
    IF ~Has(cmd.Parameters, param) THEN <<>>
    ELSE LET v == Get(cmd.Parameters, param) IN
         IF param \in {"X", "Y", "Z", "U", "V", "W", "I", "J", "K", "R", "Q"}
         THEN <<FixedToken(param, convertPosition(v, units), precision)>>
         ELSE IF param = "F"
         THEN <<FixedToken(param, convertSpeed(v, units), precision)>>
         ELSE IF param = "S"
         THEN IF cmd.Name \in {"M3", "M03", "M4", "M04"}
              THEN <<FixedToken("P", <<speedAsPercent(v), 1>>, precision)>>
              ELSE <<FixedToken(param, convertSpeed(v, units), precision)>>
         ELSE IF param \in {"T", "H", "D", "P", "L"}
         THEN <<RawToken(param, v)>>
         ELSE IF param \in {"A", "B", "C"}
         THEN <<RawToken(param, v)>>
         ELSE <<>>

\* Command.__str__, the body of the loop for one letter of GCODE_PARAMETERS:
\* the tokens it appends to the line
ParameterTokens(cmd, param, units, precision) ==
    IF ~Has(cmd.Parameters, param) THEN <<>>
    ELSE LET v == Get(cmd.Parameters, param) IN
         IF param \in {"X", "Y", "Z", "U", "V", "W", "I", "J", "K", "R", "Q"}
         THEN <<FixedToken(param, convertPosition(v, units), precision)>>
         ELSE IF param = "F"
         THEN <<FixedToken(param, convertSpeed(v, units), precision)>>
         ELSE IF param = "S"
         THEN IF cmd.Name \in {"M3", "M03", "M4", "M04"}
              THEN <<FixedToken("P", <<speedAsPercent(v), 1>>, precision)>>
              ELSE IF cmd.Name \in {"G4", "G04"}
              THEN <<FixedToken(param, <<v, 1>>, precision)>>
              ELSE <<FixedToken(param, convertSpeed(v, units), precision)>>
         ELSE IF param \in {"T", "H", "D", "P", "L"}
         THEN <<RawToken(param, v)>>
         ELSE IF param \in {"A", "B", "C"}
         THEN <<RawToken(param, v)>>
         ELSE <<>>

RECURSIVE TokensFrom(_, _, _, _)
TokensFrom(cmd, i, units, precision) ==
    IF i > Len(GCODE_PARAMETERS) THEN <<>>
    ELSE ParameterTokens(cmd, GCODE_PARAMETERS[i], units, precision)
            \o TokensFrom(cmd, i + 1, units, precision)

\* Command.__str__(self): the mnemonic and the written parameters
CommandStr(cmd, units, precision) ==
    [Name |-> cmd.Name, tokens |-> TokensFrom(cmd, 1, units, precision)]

\* type(line) in (Command, str), line 300
Numbered(line) == line.type \in {"Command", "str"}

\* one line of the text: its number when it has one, the kind of line it
\* comes from, and the line as its __str__ writes it
TextLine(number, line, c) ==
    [number |-> number,
     type   |-> line.type,
     Name   |-> line.Name,
     tokens |-> IF line.type = "Command"
                THEN CommandStr(line, c.units, c.precision).tokens ELSE <<>>,
     text   |-> line.text]

\* the lines among i..j of the stream that take a number: what nbr += 1 has
\* counted when the loop of Gcode.__str__ has gone through them
NumberedIn(g, i, j, c) ==
    Cardinality({k \in i..j : g[k].type \in types(c) /\ c.line_numbers
                                /\ Numbered(g[k])})

\* Gcode.__str__, the loop over the lines i..j, entered with the counter nbr;
\* the range is gone through by halves, in the order of the stream
RECURSIVE GcodeStrFrom(_, _, _, _, _)
GcodeStrFrom(g, i, j, nbr, c) ==
    IF i > j THEN <<>>
    ELSE IF i = j
    THEN IF g[i].type \in types(c)
         THEN IF c.line_numbers /\ Numbered(g[i])
              THEN <<TextLine(Some(c.line_start + nbr * c.line_increment),
                              g[i], c)>>
              ELSE <<TextLine(None, g[i], c)>>
         ELSE <<>>
    ELSE LET half == (i + j) \div 2
         IN  GcodeStrFrom(g, i, half, nbr, c)
                \o GcodeStrFrom(g, half + 1, j,
                                nbr + NumberedIn(g, i, half, c), c)

\* Gcode.__str__(self): the lines that '\n'.join puts together
GcodeStr(g, c) == GcodeStrFrom(g, 1, Len(g), 0, c)

----------------------------------------------------------------------------
(* Inputs *)

\* the configurations configure() resolves: the defaults, --keep-duplicates,
\* and --no-header --no-comments; every other option at its default
\* conf.tool_change: True, False, or the custom gcode given to --tool-change
\* (a str, here its lines)
ToolChange(on) == [custom |-> FALSE, on |-> on, lines |-> <<>>]
CustomToolChange(lines) == [custom |-> TRUE, on |-> lines # <<>>, lines |-> lines]

\* the defaults of configure(), lines 28-68 and 331-408; the texts are held
\* as the lines splitlines() makes of them
Defaults ==
    [remove_duplicates |-> TRUE, comments |-> TRUE, header |-> TRUE,
     translate_drill_cycles |-> TRUE, commands |-> GCODE_COMMANDS,
     spindle_wait |-> 0, pause |-> "M76",
     units |-> "mm", precision |-> 3,
     line_numbers |-> FALSE, line_start |-> 1, line_increment |-> 1,
     preamble |-> <<>>, postamble |-> <<"M400", "M5">>,
     pre_operation |-> <<>>, post_operation |-> <<>>,
     tool_change |-> ToolChange(TRUE), tool_number |-> FALSE,
     final_position |-> None,
     machine |-> None, boundaries_check |-> TRUE,
     translate_drill_cycle |-> TRUE]

ConfOf(remove_duplicates, comments, header) ==
    [Defaults EXCEPT !.remove_duplicates = remove_duplicates,
                     !.comments = comments, !.header = header]

ConfSet ==
    {ConfOf(TRUE, TRUE, TRUE), ConfOf(FALSE, TRUE, TRUE), ConfOf(TRUE, FALSE, FALSE)}

\* the operation objects: without tool controller, or with rapid speeds
Objs == {NoObj, Obj(600, 1000)}

\* lines appended by a direct Gcode.append
AppendLines ==
    {Command("G0", {<<"Z", mm(5)>>}), Header(<<"drill">>)}

\* the commands of an operation's path
MoveCommands ==
    {Command("G0", {<<"Z", mm(5)>>}),
     Command("G0", {<<"X", mm(10)>>, <<"Y", mm(10)>>})}

ModeCommands == {Command("G98", {}), Command("G99", {})}

Hole(x, y, z, r, f) ==
    {<<"X", mm(x)>>, <<"Y", mm(y)>>, <<"Z", mm(z)>>, <<"R", mm(r)>>, <<"F", f>>}

\* simple cycles: the hole is away from the origin on both axes or on one,
\* R is above the origin, at it, or below Z
SimpleCycles ==
    {Command("G81", Hole(10, 10, -5, 2, 100)),
     Command("G81", Hole(0, 10, -5, 2, 100)),
     Command("G81", Hole(10, 10, -5, 0, 100)),
     Command("G81", Hole(10, 10, -5, -6, 100))}

DwellCycles ==
    {Command("G82", Hole(10, 10, -5, 2, 100) \cup {<<"P", 2>>}),
     Command("G82", Hole(10, 10, -5, -6, 100) \cup {<<"P", 2>>})}

\* peck cycles: Q negative, null, dividing the depth R - Z or not, equal to
\* it, and larger
PeckQ == {-2, 0, 2, 5, 10}

PeckCycles ==
    {Command("G83", Hole(10, 10, -5, 0, 100) \cup {<<"Q", mm(q)>>}) : q \in PeckQ}
    \cup
    {Command("G83", Hole(10, 10, -4, 0, 100) \cup {<<"Q", mm(2)>>}),
     Command("G83", Hole(10, 10, -5, -6, 100) \cup {<<"Q", mm(2)>>})}

CycleCommands == SimpleCycles \cup DwellCycles \cup PeckCycles

\* a parenthesized comment of the path and the text re.match extracts from it
ParenInner == [n \in {"(drill)"} |-> "drill"]

OtherCommands ==
    {Command("message", {}), Command("(drill)", {}), Command("G43", {})}

\* the pairs (cmd, obj) parseObject is run on: the rapid speeds of obj
\* matter to the rapid moves of the path and of the cycles only
ParseInputs ==
    ({Command("G0", {<<"Z", mm(5)>>})} \X Objs)
    \cup (SimpleCycles \X Objs)
    \cup ({Command("G83", Hole(10, 10, -5, 0, 100) \cup {<<"Q", mm(2)>>})} \X Objs)
    \cup ((MoveCommands \cup CycleCommands \cup ModeCommands \cup OtherCommands)
             \X {NoObj})

----------------------------------------------------------------------------
(* State machine *)

\* no export is under way
\* the keys of self.values that process_arguments writes, as init_values
\* leaves them (lines 85-119); calls counts the calls of process_arguments
InitValues ==
    [MACHINE_NAME |-> "Generic Snapmaker",
     BOUNDARIES |-> [X |-> -1, Y |-> -1, Z |-> -1],
     TOOLHEAD_NAME |-> None,
     THUMBNAIL |-> TRUE,
     ALLOW_GUI |-> None,
     OUTPUT_HEADER |-> TRUE,
     calls |-> 0]

NoExport ==
    [phase |-> "api", objects |-> <<>>, obj |-> 0, cmd |-> 0, tool |-> None,
     report |-> None, exports |-> 0]

NoDrill ==
    [position |-> [a \in Axes |-> None], retractZ |-> None, nextStopZ |-> 0]

Call(op, line, obj, outcome) ==
    [op |-> op, line |-> line, obj |-> obj, outcome |-> outcome]

\* Postprocessor() configured by configure(), with its empty Gcode
Init ==
    /\ conf \in ConfSet
    /\ gcode = <<>>
    /\ drillRetractMode = Command(DRILL_RETRACT_MODE, {})
    /\ pc = "idle"
    /\ drill = NoDrill
    /\ emitted = <<>>
    /\ pecks = 0
    /\ call = Call("init", Str(<<>>), NoObj, "")
    /\ err = ""
    /\ export = NoExport
    /\ marks = <<>>
    /\ output = None
    /\ values = InitValues

\* an operation may be invoked: none is running, none has raised; outside
\* export the operations are invoked on streams of at most MaxLines lines
Ready ==
    /\ pc = "idle" /\ err = ""
    /\ export.phase = "api" => Len(gcode) <= MaxLines

\* gcode.append(line), as export and parseObject call it
AppendLine(line) ==
    /\ Ready
    /\ gcode' = GcodeAppend(gcode, conf, line)
    /\ call' = Call("append", line, NoObj,
                    IF Len(gcode') > Len(gcode) THEN "appended" ELSE "duplicate")
    /\ UNCHANGED <<conf, drillRetractMode, pc, drill, emitted, pecks, err>>

\* self.gcode.append(line) for each line of lines, in order
RECURSIVE AppendAll(_, _, _)
AppendAll(g, c, lines) ==
    IF lines = <<>> THEN g
    ELSE AppendAll(GcodeAppend(g, c, lines[1]), c, Tail(lines))

\* the raw lines of a configured text
StrLines(texts) == [i \in 1..Len(texts) |-> Str(<<texts[i]>>)]

\* parseObject, lines 538-548: the tool change made for an M6 of the path
ToolChangeOutput(g, c) ==
    LET g1 == GcodeAppend(g, c, Comment(<<"TOOL CHANGE">>))
    IN  IF c.tool_change.custom
        THEN AppendAll(g1, c, StrLines(c.tool_change.lines))
        ELSE addCommand(g1, c, c.pause, {}, NoObj, NoJob)

\* parseObject, loop body: a command of the allow-list (lines 503-504, 529-548)
ParseAllowed(cmd, obj) ==
    /\ Ready
    /\ cmd.Name \in conf.commands
    /\ LET g1 == addCommand(gcode, conf, cmd.Name, cmd.Parameters, obj, NoJob)
       IN  gcode' =
             IF cmd.Name \in {"M3", "M03", "M4", "M04"}
             THEN IF conf.spindle_wait > 0
                  THEN addCommand(g1, conf, "G4", {<<"S", conf.spindle_wait>>}, NoObj, NoJob)
                  ELSE addCommand(g1, conf, "G4", {}, NoObj, NoJob)
             ELSE IF cmd.Name \in {"M6", "M06"} /\ conf.tool_change.on
             THEN ToolChangeOutput(g1, conf)
             ELSE g1
    /\ call' = Call("parseObject", cmd, obj, "added")
    /\ UNCHANGED <<conf, drillRetractMode, pc, drill, emitted, pecks, err>>

\* the mode set and the mnemonic written to the stream too: a plausible slip
ParseRetractMode_Emits(cmd, obj) ==
    /\ Ready
    /\ cmd.Name \notin conf.commands
    /\ cmd.Name \in {"G98", "G99"} /\ conf.translate_drill_cycles
    /\ drillRetractMode' = Str(<<cmd.Name>>)
    /\ gcode' = GcodeAppend(gcode, conf, cmd)
    /\ call' = Call("parseObject", cmd, obj, "mode")
    /\ UNCHANGED <<conf, pc, drill, emitted, pecks, err>>

\* parseObject, loop body: G98 or G99 sets the retract mode (lines 507-509)
ParseRetractMode(cmd, obj) ==
    /\ Ready
    /\ cmd.Name \notin conf.commands
    /\ cmd.Name \in {"G98", "G99"} /\ conf.translate_drill_cycles
    /\ drillRetractMode' = Str(<<cmd.Name>>)
    /\ call' = Call("parseObject", cmd, obj, "mode")
    /\ UNCHANGED <<conf, gcode, pc, drill, emitted, pecks, err>>

\* parseObject, loop body: a canned cycle goes to translateDrill (lines
\* 511-513 and 426-484); a peck cycle enters the while loop, the other
\* cycles are translated whole
ParseDrill(cmd, obj) ==
    /\ Ready
    /\ cmd.Name \notin conf.commands
    /\ cmd.Name \in CycleNames /\ conf.translate_drill_cycles
    /\ LET P        == cmd.Parameters
           position == Position(gcode)
       IN  IF ~HasCycleParameters(cmd)
           THEN /\ err' = "KeyError"
                /\ call' = Call("parseObject", cmd, obj, "raised")
                /\ UNCHANGED <<gcode, pc, pecks, drill, emitted>>
           ELSE IF Rejected(cmd)
           THEN /\ call' = Call("parseObject", cmd, obj, "rejected")
                /\ drill' = [NoDrill EXCEPT !.position = position]
                /\ emitted' = <<>>
                /\ UNCHANGED <<gcode, pc, pecks, err>>
           ELSE IF position["Z"] = None
           THEN \* None > drillR or None < retractZ
                /\ err' = "TypeError"
                /\ call' = Call("parseObject", cmd, obj, "raised")
                /\ drill' = [NoDrill EXCEPT !.position = position]
                /\ emitted' = <<>>
                /\ UNCHANGED <<gcode, pc, pecks>>
           ELSE LET retractZ == RetractZ(drillRetractMode, position["Z"][1], Get(P, "R"))
                    x3 == Approach(gcode, conf, cmd, obj, position, retractZ)
                    x4 == Feed(x3, conf, Get(P, "Z"), Get(P, "F"))
                    d  == [position |-> position, retractZ |-> Some(retractZ),
                           nextStopZ |-> 0]
                    Done(x)   == /\ gcode' = x.g
                                 /\ emitted' = x.out
                                 /\ call' = Call("parseObject", cmd, obj, "translated")
                                 /\ drill' = d
                                 /\ UNCHANGED <<pc, pecks, err>>
                    Raised(x) == /\ gcode' = x.g
                                 /\ emitted' = x.out
                                 /\ call' = Call("parseObject", cmd, obj, "raised")
                                 /\ drill' = d
                                 /\ err' = "KeyError"
                                 /\ UNCHANGED <<pc, pecks>>
                IN  IF cmd.Name = "G81"
                    THEN Done(FinalRetract(x4, conf, obj, retractZ))
                    ELSE IF cmd.Name = "G82"
                    THEN IF Has(P, "P")
                         THEN Done(FinalRetract(
                                Emit(x4, conf, "G4", {<<"S", Get(P, "P")>>}, NoObj),
                                conf, obj, retractZ))
                         ELSE Raised(x4)
                    ELSE IF Has(P, "Q")
                         THEN /\ gcode' = x3.g
                              /\ emitted' = x3.out
                              /\ call' = Call("parseObject", cmd, obj, "pecking")
                              /\ drill' = [d EXCEPT !.nextStopZ = Get(P, "R") - Get(P, "Q")]
                              /\ pc' = "peck"
                              /\ pecks' = 0
                              /\ UNCHANGED err
                         ELSE Raised(x3)
    /\ UNCHANGED <<conf, drillRetractMode>>

\* translateDrill, one evaluation of the while condition of the peck cycle
\* (lines 470-484): an iteration of the loop, or the exit and the final
\* rapid move
PeckStep ==
    /\ pc = "peck" /\ pecks < MaxPecks
    /\ LET cmd == call.line
           obj == call.obj
           x   == [g |-> gcode, out |-> emitted]
           Exit(y) == LET z == FinalRetract(y, conf, obj, drill.retractZ[1])
                      IN  /\ gcode' = z.g
                          /\ emitted' = z.out
                          /\ pc' = "idle"
                          /\ call' = [call EXCEPT !.outcome = "translated"]
                          /\ UNCHANGED <<drill, pecks>>
       IN  IF drill.nextStopZ >= Get(cmd.Parameters, "Z")
           THEN LET it == PeckIteration(x, conf, cmd, obj, drill.nextStopZ)
                IN  IF it.break
                    THEN Exit(it.x)
                    ELSE /\ gcode' = it.x.g
                         /\ emitted' = it.x.out
                         /\ drill' = [drill EXCEPT !.nextStopZ = it.nextStopZ]
                         /\ pecks' = pecks + 1
                         /\ UNCHANGED <<pc, call>>
           ELSE Exit(x)
    /\ UNCHANGED <<conf, drillRetractMode, err>>

\* parseObject, loop body: a message becomes a comment (lines 515-517)
ParseMessage(cmd, obj) ==
    /\ Ready
    /\ cmd.Name \notin conf.commands
    /\ ~(cmd.Name \in {"G98", "G99"} \cup CycleNames /\ conf.translate_drill_cycles)
    /\ cmd.Name = "message"
    /\ gcode' = GcodeAppend(gcode, conf, Comment(<<"message: ", cmd.Name>>))
    /\ call' = Call("parseObject", cmd, obj, "message")
    /\ UNCHANGED <<conf, drillRetractMode, pc, drill, emitted, pecks, err>>

\* parseObject, loop body: a parenthesized comment (lines 519-521)
ParseComment(cmd, obj) ==
    /\ Ready
    /\ cmd.Name \notin conf.commands
    /\ ~(cmd.Name \in {"G98", "G99"} \cup CycleNames /\ conf.translate_drill_cycles)
    /\ cmd.Name # "message"
    /\ conf.comments /\ cmd.Name \in DOMAIN ParenInner
    /\ gcode' = GcodeAppend(gcode, conf, Comment(<<ParenInner[cmd.Name]>>))
    /\ call' = Call("parseObject", cmd, obj, "comment")
    /\ UNCHANGED <<conf, drillRetractMode, pc, drill, emitted, pecks, err>>

\* the unknown command passed on to the stream: a plausible slip
ParseIgnored_Appends(cmd, obj) ==
    /\ Ready
    /\ cmd.Name \notin conf.commands
    /\ ~(cmd.Name \in {"G98", "G99"} \cup CycleNames /\ conf.translate_drill_cycles)
    /\ cmd.Name # "message"
    /\ ~(conf.comments /\ cmd.Name \in DOMAIN ParenInner)
    /\ gcode' = GcodeAppend(gcode, conf, cmd)
    /\ call' = Call("parseObject", cmd, obj, "ignored")
    /\ UNCHANGED <<conf, drillRetractMode, pc, drill, emitted, pecks, err>>

\* parseObject, loop body: any other command is ignored (lines 523-525)
ParseIgnored(cmd, obj) ==
    /\ Ready
    /\ cmd.Name \notin conf.commands
    /\ ~(cmd.Name \in {"G98", "G99"} \cup CycleNames /\ conf.translate_drill_cycles)
    /\ cmd.Name # "message"
    /\ ~(conf.comments /\ cmd.Name \in DOMAIN ParenInner)
    /\ call' = Call("parseObject", cmd, obj, "ignored")
    /\ UNCHANGED <<conf, gcode, drillRetractMode, pc, drill, emitted, pecks, err>>

\* the methods of a Postprocessor invoked one after the other, in any order
Next ==
    \/ \E line \in AppendLines : AppendLine(line) /\ UNCHANGED <<xvars, svars>>
    \/ \E in \in ParseInputs : ParseAllowed(in[1], in[2]) /\ UNCHANGED <<xvars, svars>>
    \/ \E in \in ParseInputs : ParseRetractMode(in[1], in[2]) /\ UNCHANGED <<xvars, svars>>
    \/ \E in \in ParseInputs : ParseDrill(in[1], in[2]) /\ UNCHANGED <<xvars, svars>>
    \/ PeckStep /\ UNCHANGED <<xvars, svars>>
    \/ \E in \in ParseInputs : ParseMessage(in[1], in[2]) /\ UNCHANGED <<xvars, svars>>
    \/ \E in \in ParseInputs : ParseComment(in[1], in[2]) /\ UNCHANGED <<xvars, svars>>
    \/ \E in \in ParseInputs : ParseIgnored(in[1], in[2]) /\ UNCHANGED <<xvars, svars>>

Spec == Init /\ [][Next]_vars

TypeOK ==
    /\ conf \in ConfSet
    /\ pc \in {"idle", "peck"}
    /\ err \in {"", "KeyError", "TypeError"}
    /\ pecks \in 0..MaxPecks

----------------------------------------------------------------------------
(* Snapmaker.process_arguments, of snapmaker_post.py *)

\* SNAPMAKER_MACHINES, lines 34-41: the name and the build area of a machine
SNAPMAKER_MACHINES ==
    [m \in {"original", "original_z_extension", "a150", "A250", "A250T",
            "A350", "A350T", "artisan"} |->
        IF m = "original"
        THEN [name |-> "Snapmaker Original", X |-> 90, Y |-> 90, Z |-> 50]
        ELSE IF m = "original_z_extension"
        THEN [name |-> "Snapmaker Original with Z extension",
              X |-> 90, Y |-> 90, Z |-> 146]
        ELSE IF m = "a150" THEN [name |-> "A150", X |-> 160, Y |-> 160, Z |-> 90]
        ELSE IF m \in {"A250", "A250T"}
        THEN [name |-> "Snapmaker 2 A250(T)", X |-> 230, Y |-> 250, Z |-> 180]
        ELSE IF m \in {"A350", "A350T"}
        THEN [name |-> "Snapmaker 2 A350(T)", X |-> 320, Y |-> 350, Z |-> 275]
        ELSE [name |-> "Snapmaker Artisan", X |-> 400, Y |-> 400, Z |-> 400]]

SNAPMAKER_TOOLHEADS == <<"50W", "200W">>

\* args.toolhead.upper()
Upper == [t \in {"50W", "200W"} |-> t]

\* process_arguments is called at most MaxCalls times on one Snapmaker
MaxCalls == 2

\* the arguments of the job: --machine, --boundaries with its text,
\* --toolhead, --thumbnail or --no-thumbnail, --gui or --no-gui
Arguments ==
    [machine : {None, Some("original"), Some("A350"), Some("artisan")},
     boundaries : {None, Some("50,400,10")},
     toolhead : {None, Some("50W")},
     thumbnail : BOOLEAN,
     gui : {TRUE}]

\* argparse on --boundaries, declared with type=CoordinatesAction (line
\* 174): the text is converted by CoordinatesAction(text), the constructor
\* of an argparse.Action, which raises TypeError for want of dest; argparse
\* reports an invalid value and the parser exits
BoundariesParsed(text) == None

\* process_arguments(self), lines 185-209.  When the parser exits,
\* process_shared_arguments either lets SystemExit through or returns a
\* False flag; in both cases the values are as they were
ProcessArguments(args) ==
    /\ values.calls < MaxCalls
    /\ IF args.boundaries # None /\ BoundariesParsed(args.boundaries[1]) = None
       THEN /\ \E outcome \in {"SystemExit", "False"} :
                  call' = Call("process_arguments", args, NoObj, outcome)
            /\ values' = [values EXCEPT !.calls = @ + 1]
       ELSE LET machine == IF args.machine # None
                           THEN [values EXCEPT
                                   !.MACHINE_NAME =
                                       SNAPMAKER_MACHINES[args.machine[1]].name,
                                   !.BOUNDARIES =
                                       [k \in {"X", "Y", "Z"} |->
                                          SNAPMAKER_MACHINES[args.machine[1]][k]]]
                           ELSE values
                custom  == IF args.boundaries # None
                           THEN [machine EXCEPT
                                   !.BOUNDARIES = BoundariesParsed(args.boundaries[1])[1]]
                           ELSE machine
            IN  /\ values' =
                      [custom EXCEPT
                         !.TOOLHEAD_NAME =
                             IF args.toolhead # None
                             THEN Some(Upper[args.toolhead[1]])
                             ELSE Some(SNAPMAKER_TOOLHEADS[1]),
                         !.THUMBNAIL = args.thumbnail,
                         !.ALLOW_GUI = Some(args.gui),
                         !.calls = @ + 1]
                /\ call' = Call("process_arguments", args, NoObj, "True")
    /\ UNCHANGED <<conf, gcode, drillRetractMode, pc, drill, emitted, pecks, err,
                   xvars>>

\* a new Snapmaker, as Snapmaker.__init__ leaves it (lines 59-83)
ArgumentsInit ==
    /\ conf = Defaults
    /\ gcode = <<>>
    /\ drillRetractMode = Command(DRILL_RETRACT_MODE, {})
    /\ pc = "idle"
    /\ drill = NoDrill
    /\ emitted = <<>>
    /\ pecks = 0
    /\ call = Call("init", Str(<<>>), NoObj, "")
    /\ err = ""
    /\ export = NoExport
    /\ marks = <<>>
    /\ output = None
    /\ values = InitValues

ArgumentsNext == \E args \in Arguments : ProcessArguments(args)

ArgumentsSpec == ArgumentsInit /\ [][ArgumentsNext]_vars

----------------------------------------------------------------------------
(* Postprocessor.checkBoundaries *)

\* BOUNDARIES, lines 53-58: the build area of each machine, in millimetres
BOUNDARIES ==
    [m \in {"original", "original_z_extension", "A150", "A250", "A250T",
            "A350", "A350T"} |->
        IF m = "original" THEN [X |-> 90, Y |-> 90, Z |-> 50]
        ELSE IF m = "original_z_extension" THEN [X |-> 90, Y |-> 90, Z |-> 146]
        ELSE IF m = "A150" THEN [X |-> 160, Y |-> 160, Z |-> 90]
        ELSE IF m \in {"A250", "A250T"} THEN [X |-> 230, Y |-> 250, Z |-> 180]
        ELSE [X |-> 320, Y |-> 350, Z |-> 275]]

\* the body of the loop of lines 564-578 for one line: st.position is the
\* replayed position, st.hi and st.lo are boundaries[axis][0] and
\* boundaries[axis][1]; relative is set to False by G90 and by G91 alike
ReplayLine(cmd, st) ==
    IF cmd.type # "Command" THEN st
    ELSE IF cmd.Name = "G90" THEN [st EXCEPT !.relative = FALSE]
    ELSE IF cmd.Name = "G91" THEN [st EXCEPT !.relative = FALSE]
    ELSE IF cmd.Name \in {"G0", "G1"}
    THEN LET Moved(a) == IF ~Has(cmd.Parameters, a) THEN st.position[a]
                         ELSE IF st.relative
                         THEN st.position[a] + Get(cmd.Parameters, a)
                         ELSE Get(cmd.Parameters, a)
             Hi(a) == IF Has(cmd.Parameters, a)
                      THEN Max(st.hi[a], Moved(a)) ELSE st.hi[a]
             Lo(a) == IF Has(cmd.Parameters, a)
                      THEN Min(st.lo[a], Moved(a)) ELSE st.lo[a]
         IN  [relative |-> st.relative,
              position |-> [X |-> Moved("X"), Y |-> Moved("Y"), Z |-> Moved("Z")],
              hi       |-> [X |-> Hi("X"), Y |-> Hi("Y"), Z |-> Hi("Z")],
              lo       |-> [X |-> Lo("X"), Y |-> Lo("Y"), Z |-> Lo("Z")]]
    ELSE st

\* the loop of lines 560-578 over the lines i..j of the stream, entered with
\* st; the range is gone through by halves, in the order of the stream
RECURSIVE Replay(_, _, _, _)
Replay(g, i, j, st) ==
    IF i > j THEN st
    ELSE IF i = j THEN ReplayLine(g[i], st)
    ELSE LET half  == (i + j) \div 2
             first == Replay(g, i, half, st)
         IN  IF first = st THEN Replay(g, half + 1, j, st)
             ELSE Replay(g, half + 1, j, first)

\* checkBoundaries(self), lines 552-582: the value it returns ("None" when
\* the function falls off its end), the axes it warns about, and the
\* extents it has replayed
checkBoundaries(g, c) ==
    LET zero == [a \in Axes |-> 0]
        b    == Replay(g, 1, Len(g),
                       [relative |-> FALSE, position |-> zero,
                        hi |-> zero, lo |-> zero])
    IN  IF c.machine = None \/ c.machine[1] \notin DOMAIN BOUNDARIES
        THEN [result |-> "False", axes |-> {}, hi |-> zero, lo |-> zero]
        ELSE [result |-> "None",
              axes   |-> {a \in Axes :
                            Abs(b.hi[a] - b.lo[a]) > mm(BOUNDARIES[c.machine[1]][a])},
              hi |-> b.hi, lo |-> b.lo]

\* post.checkBoundaries() on the stream as it is
CheckBoundaries ==
    /\ pc = "idle" /\ err = ""
    /\ export.phase = "api" /\ export.report = None
    /\ export' = [export EXCEPT !.report = Some(checkBoundaries(gcode, conf))]
    /\ UNCHANGED <<pvars, marks, output>>

\* a line appended to the stream, which the last report no longer describes
BoundaryAppend(line) ==
    /\ AppendLine(line)
    /\ export' = [export EXCEPT !.report = None]
    /\ UNCHANGED <<marks, output>>

\* the streams checked: a path away from the origin (X 100 to 150), a move
\* across the origin to X -20, the moves of the boundaries test
\* (G01 X100 Y-100.5 Z-1, then G02 Y260) and its first move
BoundaryLines ==
    {Command("G0", {<<"X", mm(100)>>}),
     Command("G1", {<<"X", mm(150)>>}),
     Command("G1", {<<"X", mm(-20)>>, <<"Z", mm(-1)>>}),
     Command("G0", {<<"X", mm(100)>>, <<"Y", -201>>, <<"Z", mm(-1)>>}),
     Command("G01", {<<"X", mm(100)>>, <<"Y", -201>>, <<"Z", mm(-1)>>}),
     Command("G02", {<<"Y", mm(260)>>})}

\* no machine, the smallest one and the largest one
BoundaryConfSet ==
    {[Defaults EXCEPT !.machine = m] : m \in {None, Some("original"), Some("A350")}}

\* a new Postprocessor configured with --machine, or without
BoundaryInit ==
    /\ conf \in BoundaryConfSet
    /\ gcode = <<>>
    /\ drillRetractMode = Command(DRILL_RETRACT_MODE, {})
    /\ pc = "idle"
    /\ drill = NoDrill
    /\ emitted = <<>>
    /\ pecks = 0
    /\ call = Call("init", Str(<<>>), NoObj, "")
    /\ err = ""
    /\ export = NoExport
    /\ marks = <<>>
    /\ output = None
    /\ values = InitValues

BoundaryNext ==
    \/ \E line \in BoundaryLines : BoundaryAppend(line) /\ UNCHANGED svars
    \/ CheckBoundaries /\ UNCHANGED svars

BoundarySpec == BoundaryInit /\ [][BoundaryNext]_vars

----------------------------------------------------------------------------
(* Postprocessor.export *)

GCODE_MOTION_MODE == "G90"
GCODE_WORK_PLANE == "G17"
GCODE_UNITS == [u \in {"mm", "in"} |-> IF u = "mm" THEN "G21" ELSE "G20"]
GCODE_COOLANT ==
    [k \in {"mist", "flood", "off"} |->
        IF k = "mist" THEN "F7" ELSE IF k = "flood" THEN "M8" ELSE "M9"]

\* coolantMode.lower() for the modes of an operation
Lower == [m \in {"None", "Flood", "Mist", "Air"} |->
             IF m = "Flood" THEN "flood" ELSE IF m = "Mist" THEN "mist"
             ELSE IF m = "Air" THEN "air" ELSE "none"]

\* an object handed to export: hasPath and Active tell whether it is a valid
\* and active operation, tool is None or the <<FullName, ToolNumber>> of its
\* ToolController, whose rapid speeds are those of Obj(600, 1000)
Operation(label, hasPath, active, tool, coolant, commands) ==
    [hasToolController |-> tool # None,
     VertRapid   |-> IF tool # None THEN 600 ELSE 0,
     HorizRapid  |-> IF tool # None THEN 1000 ELSE 0,
     FullName    |-> IF tool # None THEN tool[1][1] ELSE "",
     ToolNumber  |-> IF tool # None THEN tool[1][2] ELSE "",
     Label       |-> label,
     hasPath     |-> hasPath,
     Active      |-> active,
     CoolantMode |-> coolant,
     Commands    |-> commands]

\* the part of export that appends a line, and the object it works on
Part(name, obj) == [part |-> name, obj |-> obj]

\* the marks of the lines of g, those that marks does not cover being
\* appended by part
Mark(m, g, part) == m \o [i \in 1..(Len(g) - Len(m)) |-> part]

CurrentObj == export.objects[export.obj]
CurrentCmd == CurrentObj.Commands[export.cmd]

\* export has not raised and is at the given place
At(phase) == export.phase = phase /\ pc = "idle" /\ err = ""

\* lines 601-607, without a thumbnail: no job is found and the GUI is not up
ExportHeader ==
    /\ At("header")
    /\ gcode' = AppendAll(gcode, conf,
                   <<Header(<<"Header Start">>),
                     Header(<<"Exported by FreeCAD">>),
                     Header(<<"Postprocessor: ", "Snapmaker_2_CNC_post">>),
                     Header(<<"Output Time: ", "now">>),
                     Header(<<"Header End">>)>>)
    /\ marks' = Mark(marks, gcode', Part("header", 0))
    /\ export' = [export EXCEPT !.phase = "preamble"]
    /\ UNCHANGED <<conf, drillRetractMode, pc, drill, emitted, pecks, call, err, output>>

\* lines 610-612
ExportPreamble ==
    /\ At("preamble")
    /\ gcode' = AppendAll(gcode, conf,
                   <<Comment(<<"PREAMBLE">>)>> \o StrLines(conf.preamble))
    /\ marks' = Mark(marks, gcode', Part("preamble", 0))
    /\ export' = [export EXCEPT !.phase = "configuration"]
    /\ UNCHANGED <<conf, drillRetractMode, pc, drill, emitted, pecks, call, err, output>>

\* the unit selector written before the motion mode: a plausible slip
ExportConfiguration_UnitFirst ==
    /\ At("configuration")
    /\ LET g0 == GcodeAppend(gcode, conf, Comment(<<"CONFIGURATION">>))
           g1 == addCommand(g0, conf, GCODE_UNITS[conf.units], {}, NoObj, NoJob)
           g2 == addCommand(g1, conf, GCODE_MOTION_MODE, {}, NoObj, NoJob)
       IN  gcode' = addCommand(g2, conf, GCODE_WORK_PLANE, {}, NoObj, NoJob)
    /\ marks' = Mark(marks, gcode', Part("configuration", 0))
    /\ export' = [export EXCEPT !.phase = "objects", !.obj = 1, !.tool = None]
    /\ UNCHANGED <<conf, drillRetractMode, pc, drill, emitted, pecks, call, err, output>>

\* lines 615-620
ExportConfiguration ==
    /\ At("configuration")
    /\ LET g0 == GcodeAppend(gcode, conf, Comment(<<"CONFIGURATION">>))
           g1 == addCommand(g0, conf, GCODE_MOTION_MODE, {}, NoObj, NoJob)
           g2 == addCommand(g1, conf, GCODE_UNITS[conf.units], {}, NoObj, NoJob)
       IN  gcode' = addCommand(g2, conf, GCODE_WORK_PLANE, {}, NoObj, NoJob)
    /\ marks' = Mark(marks, gcode', Part("configuration", 0))
    /\ export' = [export EXCEPT !.phase = "objects", !.obj = 1, !.tool = None]
    /\ UNCHANGED <<conf, drillRetractMode, pc, drill, emitted, pecks, call, err, output>>

\* the skipped object becomes the previous tool: a plausible slip
ExportSkip_KeepsTool ==
    /\ At("objects") /\ export.obj <= Len(export.objects)
    /\ ~CurrentObj.hasPath \/ ~CurrentObj.Active
    /\ export' = [export EXCEPT !.obj = @ + 1,
                                !.tool = IF CurrentObj.hasToolController
                                         THEN Some(CurrentObj.FullName) ELSE @]
    /\ UNCHANGED <<pvars, marks, output>>

\* lines 622-630: an object without Path, or inactive, is skipped
ExportSkip ==
    /\ At("objects") /\ export.obj <= Len(export.objects)
    /\ ~CurrentObj.hasPath \/ ~CurrentObj.Active
    /\ export' = [export EXCEPT !.obj = @ + 1]
    /\ UNCHANGED <<pvars, marks, output>>

\* lines 632-640: the pause before an operation whose tool differs from the
\* previous one, and the tool number
ExportToolChange ==
    /\ At("objects") /\ export.obj <= Len(export.objects)
    /\ CurrentObj.hasPath /\ CurrentObj.Active
    /\ LET obj == CurrentObj
           g1  == IF /\ obj.hasToolController
                     /\ Some(obj.FullName) # export.tool /\ export.tool # None
                  THEN addCommand(
                         GcodeAppend(gcode, conf,
                                     Comment(<<"TOOL CHANGE: ", export.tool[1]>>)),
                         conf, conf.pause, {}, NoObj, NoJob)
                  ELSE gcode
           g2  == IF obj.hasToolController /\ conf.tool_number
                  THEN GcodeAppend(g1, conf, Str(<<"T", obj.ToolNumber>>))
                  ELSE g1
       IN  /\ gcode' = g2
           /\ marks' = Mark(Mark(marks, g1, Part("tool_change", export.obj)),
                            g2, Part("tool_number", export.obj))
           /\ export' = [export EXCEPT
                            !.phase = "pre_operation",
                            !.tool = IF obj.hasToolController
                                     THEN Some(obj.FullName) ELSE @]
    /\ UNCHANGED <<conf, drillRetractMode, pc, drill, emitted, pecks, call, err, output>>

\* lines 642-645
ExportPreOperation ==
    /\ At("pre_operation")
    /\ gcode' = AppendAll(gcode, conf,
                   <<Comment(<<"OPERATION: ", CurrentObj.Label>>)>>
                      \o StrLines(conf.pre_operation))
    /\ marks' = Mark(marks, gcode', Part("pre_operation", export.obj))
    /\ export' = [export EXCEPT !.phase = "coolant_on"]
    /\ UNCHANGED <<conf, drillRetractMode, pc, drill, emitted, pecks, call, err, output>>

\* lines 647-657; parseObject then starts on the first command of the path
ExportCoolantOn ==
    /\ At("coolant_on")
    /\ LET coolantMode == CurrentObj.CoolantMode
           g1 == GcodeAppend(gcode, conf, Comment(<<"COOLANT ON: ", coolantMode>>))
       IN  IF coolantMode = "None"
           THEN /\ export' = [export EXCEPT !.phase = "path", !.cmd = 1]
                /\ UNCHANGED <<gcode, err>>
           ELSE IF Lower[coolantMode] \in DOMAIN GCODE_COOLANT
           THEN /\ gcode' = addCommand(g1, conf, GCODE_COOLANT[Lower[coolantMode]],
                                       {}, NoObj, NoJob)
                /\ export' = [export EXCEPT !.phase = "path", !.cmd = 1]
                /\ UNCHANGED err
           ELSE /\ gcode' = g1
                /\ err' = "KeyError"
                /\ UNCHANGED export
    /\ marks' = Mark(marks, gcode', Part("coolant_on", export.obj))
    /\ UNCHANGED <<conf, drillRetractMode, pc, drill, emitted, pecks, call, output>>

\* parseObject has a command of the path left to process
InPath == At("path") /\ export.cmd <= Len(CurrentObj.Commands)

\* the loop of parseObject goes to the next command
NextCommand ==
    /\ export' = [export EXCEPT !.cmd = @ + 1]
    /\ marks' = Mark(marks, gcode', Part("path", export.obj))
    /\ UNCHANGED output

\* parseObject (line 660), one command of the path of the current object
ExportAllowed == InPath /\ ParseAllowed(CurrentCmd, CurrentObj) /\ NextCommand
ExportRetractMode == InPath /\ ParseRetractMode(CurrentCmd, CurrentObj) /\ NextCommand
ExportDrill == InPath /\ ParseDrill(CurrentCmd, CurrentObj) /\ NextCommand
ExportMessage == InPath /\ ParseMessage(CurrentCmd, CurrentObj) /\ NextCommand
ExportComment == InPath /\ ParseComment(CurrentCmd, CurrentObj) /\ NextCommand
ExportIgnored == InPath /\ ParseIgnored(CurrentCmd, CurrentObj) /\ NextCommand

\* the peck loop of a cycle of the path
ExportPeckStep ==
    /\ export.phase = "path"
    /\ PeckStep
    /\ marks' = Mark(marks, gcode', Part("path", export.obj))
    /\ UNCHANGED <<export, output>>

\* lines 662-665, once parseObject has returned
ExportPostOperation ==
    /\ At("path") /\ export.cmd > Len(CurrentObj.Commands)
    /\ gcode' = AppendAll(gcode, conf,
                   <<Comment(<<"END OF OPERATION: ", CurrentObj.Label>>)>>
                      \o StrLines(conf.post_operation))
    /\ marks' = Mark(marks, gcode', Part("post_operation", export.obj))
    /\ export' = [export EXCEPT !.phase = "coolant_off"]
    /\ UNCHANGED <<conf, drillRetractMode, pc, drill, emitted, pecks, call, err, output>>

\* the coolant switched off whatever the mode: a plausible slip
ExportCoolantOff_Always ==
    /\ At("coolant_off")
    /\ gcode' = addCommand(
                  GcodeAppend(gcode, conf,
                     Comment(<<"COOLANT OFF: ", CurrentObj.CoolantMode>>)),
                  conf, GCODE_COOLANT["off"], {}, NoObj, NoJob)
    /\ marks' = Mark(marks, gcode', Part("coolant_off", export.obj))
    /\ export' = [export EXCEPT !.phase = "objects", !.obj = @ + 1]
    /\ UNCHANGED <<conf, drillRetractMode, pc, drill, emitted, pecks, call, err, output>>

\* lines 667-670, then the next object
ExportCoolantOff ==
    /\ At("coolant_off")
    /\ LET coolantMode == CurrentObj.CoolantMode
       IN  gcode' =
             IF coolantMode # "None"
             THEN addCommand(
                    GcodeAppend(gcode, conf, Comment(<<"COOLANT OFF: ", coolantMode>>)),
                    conf, GCODE_COOLANT["off"], {}, NoObj, NoJob)
             ELSE gcode
    /\ marks' = Mark(marks, gcode', Part("coolant_off", export.obj))
    /\ export' = [export EXCEPT !.phase = "objects", !.obj = @ + 1]
    /\ UNCHANGED <<conf, drillRetractMode, pc, drill, emitted, pecks, call, err, output>>

\* lines 672-674, after the last object
ExportFinalPosition ==
    /\ At("objects") /\ export.obj > Len(export.objects)
    /\ gcode' = IF conf.final_position # None
                THEN GcodeAppend(gcode, conf, conf.final_position[1])
                ELSE gcode
    /\ marks' = Mark(marks, gcode', Part("final_position", 0))
    /\ export' = [export EXCEPT !.phase = "postamble"]
    /\ UNCHANGED <<conf, drillRetractMode, pc, drill, emitted, pecks, call, err, output>>

\* lines 676-679
ExportPostamble ==
    /\ At("postamble")
    /\ gcode' = AppendAll(gcode, conf,
                   <<Comment(<<"POSTAMBLE">>)>> \o StrLines(conf.postamble))
    /\ marks' = Mark(marks, gcode', Part("postamble", 0))
    /\ export' = [export EXCEPT !.phase = "boundaries"]
    /\ UNCHANGED <<conf, drillRetractMode, pc, drill, emitted, pecks, call, err, output>>

\* the export given up when the job exceeds the build area: a plausible slip
ExportBoundaries_Blocks ==
    /\ At("boundaries")
    /\ LET r == checkBoundaries(gcode, conf)
       IN  /\ export' = [export EXCEPT
                            !.phase = "str",
                            !.report = IF conf.boundaries_check THEN Some(r) ELSE None]
           /\ err' = IF conf.boundaries_check /\ r.axes # {} THEN "BoundaryError" ELSE err
    /\ UNCHANGED <<conf, gcode, drillRetractMode, pc, drill, emitted, pecks, call,
                   marks, output>>

\* lines 683-685: the boundaries check, when it is enabled
ExportBoundaries ==
    /\ At("boundaries")
    /\ export' = [export EXCEPT
                     !.phase = "str",
                     !.report = IF conf.boundaries_check
                                THEN Some(checkBoundaries(gcode, conf))
                                ELSE None]
    /\ UNCHANGED <<pvars, marks, output>>

\* line 688: data = str(self.gcode)
ExportStr ==
    /\ At("str")
    /\ output' = Some(GcodeStr(gcode, conf))
    /\ export' = [export EXCEPT !.phase = "done"]
    /\ UNCHANGED <<pvars, marks>>

----------------------------------------------------------------------------
(* Inputs of export *)

\* objects handed to one export: every list of at most MaxObjects objects,
\* and the longer jobs of LongJobs
MaxObjects == 2

\* the configurations export runs under: the defaults; texts, two decimals
\* and neither header nor comments; line numbers from 10 by 2 without header;
\* inches, no decimals, numbered lines, duplicates kept and no comments; a
\* custom tool change with M6 allowed, tool numbers, operation texts, a
\* spindle wait and a final position; M6 allowed with the pause as tool change.
\* The boundaries check runs without a machine, with the largest one, with
\* the smallest one, or is disabled.
ExportConfSet ==
    {Defaults,
     [Defaults EXCEPT !.header = FALSE, !.comments = FALSE, !.precision = 2,
                      !.preamble = <<"G18 G55">>, !.postamble = <<"G0 Z50", "M2">>,
                      !.machine = Some("A350")],
     [Defaults EXCEPT !.header = FALSE, !.line_numbers = TRUE,
                      !.line_start = 10, !.line_increment = 2,
                      !.machine = Some("original"), !.boundaries_check = FALSE],
     [Defaults EXCEPT !.comments = FALSE, !.line_numbers = TRUE,
                      !.units = "in", !.precision = 0,
                      !.remove_duplicates = FALSE],
     [Defaults EXCEPT !.tool_change = CustomToolChange(<<"M5", "M25">>),
                      !.commands = GCODE_COMMANDS \cup {"M6"},
                      !.tool_number = TRUE, !.spindle_wait = 2,
                      !.pre_operation = <<"M17">>, !.post_operation = <<"M18">>,
                      !.final_position =
                          Some(Command("G0", {<<"X", 0>>, <<"Y", 0>>, <<"Z", mm(50)>>})),
                      !.machine = Some("original")],
     [Defaults EXCEPT !.commands = GCODE_COMMANDS \cup {"M6"},
                      !.header = FALSE, !.comments = FALSE]}

TC1 == Some(<<"TC1", "01">>)
TC2 == Some(<<"TC2", "02">>)

\* a spindle start and a rapid move
Profile ==
    Operation("Profile", TRUE, TRUE, TC1, "None",
              <<Command("M3", {<<"S", 9000>>}),
                Command("G0", {<<"X", mm(10)>>, <<"Y", mm(20)>>, <<"Z", mm(30)>>})>>)

\* the same tool with flood coolant: two identical rapid moves and an arc
\* down to Z-0.5 around a centre given by I and J
Pocket ==
    Operation("Pocket", TRUE, TRUE, TC1, "Flood",
              <<Command("G0", {<<"Z", mm(5)>>}),
                Command("G0", {<<"Z", mm(5)>>}),
                Command("G2", {<<"X", mm(10)>>, <<"Z", -1>>, <<"I", mm(5)>>,
                               <<"J", 0>>, <<"F", 100>>})>>)

\* another tool with mist coolant: a tool change, a slow spindle start, a
\* comment, a command outside the allow-list and an arc of radius R
Engrave ==
    Operation("Engrave", TRUE, TRUE, TC2, "Mist",
              <<Command("M6", {<<"T", 2>>}),
                Command("M3", {<<"S", 3000>>}),
                Command("(drill)", {}),
                Command("G43", {}),
                Command("G3", {<<"X", mm(10)>>, <<"R", mm(5)>>, <<"F", 100>>})>>)

\* an operation without tool controller: a peck cycle and a message
Peck ==
    Operation("Peck", TRUE, TRUE, None, "None",
              <<Command("G98", {}),
                Command("G83", Hole(10, 10, -5, 0, 100) \cup {<<"Q", mm(2)>>}),
                Command("message", {})>>)

\* a simple cycle in G99 mode, then a spindle start
Bore ==
    Operation("Bore", TRUE, TRUE, TC2, "Flood",
              <<Command("G99", {}),
                Command("G81", Hole(10, 10, -5, 2, 100)),
                Command("M3", {<<"S", 3600>>})>>)

\* a dwell cycle of two seconds after a rapid move that carries its F
Dwell ==
    Operation("Dwell", TRUE, TRUE, TC1, "None",
              <<Command("G0", {<<"Z", mm(5)>>, <<"F", 300>>}),
                Command("G82", Hole(10, 10, -5, 2, 100) \cup {<<"P", 2>>})>>)

\* an inactive operation and an object that is not a path
Inactive ==
    Operation("Inactive", TRUE, FALSE, Some(<<"TC3", "03">>), "Flood",
              <<Command("G0", {<<"Z", mm(5)>>})>>)
NotAPath == Operation("Body", FALSE, TRUE, None, "None", <<>>)

ExportObjects == {Profile, Pocket, Engrave, Peck, Bore, Dwell, Inactive, NotAPath}

\* jobs of three operations: a tool, no tool, another tool; a tool, an
\* inactive operation, another tool
LongJobs == {<<Profile, Peck, Engrave>>, <<Pocket, Inactive, Bore>>}

ObjectLists ==
    UNION {[1..n -> ExportObjects] : n \in 0..MaxObjects} \cup LongJobs

----------------------------------------------------------------------------
(* One export on a new Postprocessor *)

\* export(objects, filename, argstring), lines 701-703 and 584-599: a new
\* Postprocessor configured from argstring, its stream empty; no job is
\* found for the objects and none is selected
ExportInit ==
    /\ conf \in ExportConfSet
    /\ gcode = <<>>
    /\ drillRetractMode = Command(DRILL_RETRACT_MODE, {})
    /\ pc = "idle"
    /\ drill = NoDrill
    /\ emitted = <<>>
    /\ pecks = 0
    /\ call = Call("export", Str(<<>>), NoObj, "")
    /\ err = ""
    /\ \E objects \in ObjectLists :
          export = [NoExport EXCEPT !.phase = "header", !.objects = objects,
                                    !.exports = 1]
    /\ marks = <<>>
    /\ output = None
    /\ values = InitValues

ExportNext ==
    \/ ExportHeader /\ UNCHANGED svars
    \/ ExportPreamble /\ UNCHANGED svars
    \/ ExportConfiguration /\ UNCHANGED svars
    \/ ExportSkip /\ UNCHANGED svars
    \/ ExportToolChange /\ UNCHANGED svars
    \/ ExportPreOperation /\ UNCHANGED svars
    \/ ExportCoolantOn /\ UNCHANGED svars
    \/ ExportAllowed /\ UNCHANGED svars
    \/ ExportRetractMode /\ UNCHANGED svars
    \/ ExportDrill /\ UNCHANGED svars
    \/ ExportPeckStep /\ UNCHANGED svars
    \/ ExportMessage /\ UNCHANGED svars
    \/ ExportComment /\ UNCHANGED svars
    \/ ExportIgnored /\ UNCHANGED svars
    \/ ExportPostOperation /\ UNCHANGED svars
    \/ ExportCoolantOff /\ UNCHANGED svars
    \/ ExportFinalPosition /\ UNCHANGED svars
    \/ ExportPostamble /\ UNCHANGED svars
    \/ ExportBoundaries /\ UNCHANGED svars
    \/ ExportStr /\ UNCHANGED svars

ExportSpec == ExportInit /\ [][ExportNext]_vars

----------------------------------------------------------------------------
(* Several exports on one Postprocessor *)

\* post.export is called at most MaxExports times on one Postprocessor
MaxExports == 2

\* post.export(objects, filename, argstring) once more on the Postprocessor
\* of a finished export, lines 584-599, with the same objects: an argstring
\* that is not empty (one that resolves to the same options) configures the
\* Postprocessor and gives it a new Gcode, whose retract mode is the
\* default; an empty one leaves the configuration and the stream
ExportAgain(argstring) ==
    /\ export.phase = "done" /\ err = "" /\ pc = "idle"
    /\ export.exports < MaxExports
    /\ IF argstring
       THEN /\ gcode' = <<>>
            /\ drillRetractMode' = Command(DRILL_RETRACT_MODE, {})
            /\ marks' = <<>>
            /\ UNCHANGED conf
       ELSE UNCHANGED <<conf, gcode, drillRetractMode, marks>>
    /\ export' = [export EXCEPT !.phase = "header", !.obj = 0, !.cmd = 0,
                                !.tool = None, !.report = None, !.exports = @ + 1]
    /\ output' = None
    /\ call' = Call("export", Str(<<>>), NoObj, "")
    /\ UNCHANGED <<pc, drill, emitted, pecks, err>>

\* the first export is under way, as in ExportInit
ReExportInit == ExportInit

ReExportNext ==
    \/ ExportNext
    \/ \E argstring \in BOOLEAN : ExportAgain(argstring) /\ UNCHANGED svars

ReExportSpec == ReExportInit /\ [][ReExportNext]_vars

----------------------------------------------------------------------------
(* Exports of operations the translation cannot serve *)

\* a simple cycle that lacks one of the parameters translateDrill reads at
\* lines 431-435
Lacking(letter) ==
    Operation("Lacking", TRUE, TRUE, None, "None",
              <<Command("G0", {<<"Z", mm(5)>>}),
                Command("G81", {p \in Hole(10, 10, -5, 2, 100) : p[1] # letter})>>)

\* a dwell cycle without P (line 463) and a peck cycle without Q (line 466)
DwellNoP ==
    Operation("DwellNoP", TRUE, TRUE, None, "None",
              <<Command("G0", {<<"Z", mm(5)>>}),
                Command("G82", Hole(10, 10, -5, 2, 100))>>)
PeckNoQ ==
    Operation("PeckNoQ", TRUE, TRUE, None, "None",
              <<Command("G0", {<<"Z", mm(5)>>}),
                Command("G83", Hole(10, 10, -5, 2, 100))>>)

\* an operation whose coolant mode is no key of GCODE_COOLANT (line 657)
AirCooled ==
    Operation("AirCooled", TRUE, TRUE, TC1, "Air",
              <<Command("G0", {<<"Z", mm(5)>>})>>)

FaultyObjects ==
    {Lacking(letter) : letter \in {"X", "Y", "Z", "R", "F"}}
        \cup {DwellNoP, PeckNoQ, AirCooled}

\* the jobs of ExportSpec, and those jobs, the long ones left out, with one
\* of the operations above at their end
FaultyLists ==
    ObjectLists \cup
    {Append(objects, faulty) :
        objects \in UNION {[1..n -> ExportObjects] : n \in 0..(MaxObjects - 1)},
        faulty \in FaultyObjects}

FaultyInit ==
    /\ conf \in ExportConfSet
    /\ gcode = <<>>
    /\ drillRetractMode = Command(DRILL_RETRACT_MODE, {})
    /\ pc = "idle"
    /\ drill = NoDrill
    /\ emitted = <<>>
    /\ pecks = 0
    /\ call = Call("export", Str(<<>>), NoObj, "")
    /\ err = ""
    /\ \E objects \in FaultyLists :
          export = [NoExport EXCEPT !.phase = "header", !.objects = objects,
                                    !.exports = 1]
    /\ marks = <<>>
    /\ output = None
    /\ values = InitValues

FaultySpec == FaultyInit /\ [][ExportNext]_vars

----------------------------------------------------------------------------
(* Postprocessor.configure *)

\* at most MaxArgs options are given to configure
MaxArgs == 2

\* the options without a value, lines 331-389 and 402-405
Flags ==
    {"--header", "--no-header", "--comments", "--no-comments",
     "--line-numbers", "--no-line-numbers",
     "--remove-duplicates", "--keep-duplicates",
     "--translate-drill-cycles", "--no-translate-drill-cycles",
     "--tool-change", "--no-tool-change",
     "--tool-number", "--no-tool-number",
     "--boundaries-check", "--no-boundaries-check"}

ArgLists == UNION {[1..n -> Flags] : n \in 0..MaxArgs}

\* what the action of one option stores in the namespace: store_true and
\* store_false write the attribute named by dest, which is the name of the
\* option unless dest is given; --tool-change without a value stores const
StoreFlag(c, flag) ==
    IF flag = "--header" THEN [c EXCEPT !.header = TRUE]
    ELSE IF flag = "--no-header" THEN [c EXCEPT !.header = FALSE]
    ELSE IF flag = "--comments" THEN [c EXCEPT !.comments = TRUE]
    ELSE IF flag = "--no-comments" THEN [c EXCEPT !.comments = FALSE]
    ELSE IF flag = "--line-numbers" THEN [c EXCEPT !.line_numbers = TRUE]
    ELSE IF flag = "--no-line-numbers" THEN [c EXCEPT !.line_numbers = FALSE]
    ELSE IF flag = "--remove-duplicates" THEN [c EXCEPT !.remove_duplicates = TRUE]
    ELSE IF flag = "--keep-duplicates" THEN [c EXCEPT !.remove_duplicates = FALSE]
    ELSE IF flag = "--translate-drill-cycles"
    THEN [c EXCEPT !.translate_drill_cycles = TRUE]
    ELSE IF flag = "--no-translate-drill-cycles"
    THEN [c EXCEPT !.translate_drill_cycle = FALSE]
    ELSE IF flag = "--tool-change" THEN [c EXCEPT !.tool_change = ToolChange(TRUE)]
    ELSE IF flag = "--no-tool-change" THEN [c EXCEPT !.tool_change = ToolChange(FALSE)]
    ELSE IF flag = "--tool-number" THEN [c EXCEPT !.tool_number = TRUE]
    ELSE IF flag = "--no-tool-number" THEN [c EXCEPT !.tool_change = ToolChange(FALSE)]
    ELSE IF flag = "--boundaries-check" THEN [c EXCEPT !.boundaries_check = TRUE]
    ELSE [c EXCEPT !.boundaries_check = FALSE]

\* parser.parse_args(args=args), line 407: the options act in the order they
\* are given, on a namespace that starts from the defaults
RECURSIVE parse_args(_, _)
parse_args(c, args) ==
    IF args = <<>> THEN c
    ELSE parse_args(StoreFlag(c, Head(args)), Tail(args))

\* configure(self, *args): self.conf
configure(args) == parse_args(Defaults, args)

\* post.configure(*args) on a new Postprocessor, followed by a new Gcode for
\* the configuration as at lines 587-589 of export
Configure(args) ==
    /\ pc = "idle" /\ err = ""
    /\ call.op = "init"
    /\ conf' = configure(args)
    /\ gcode' = <<>>
    /\ drillRetractMode' = Command(DRILL_RETRACT_MODE, {})
    /\ call' = Call("configure", Str(args), NoObj, "")
    /\ UNCHANGED <<pc, drill, emitted, pecks, err>>

\* the commands parseObject is run on after configure: two cycles, a tool
\* change and a command outside the allow-list
ConfigureInputs ==
    {Command("G81", Hole(10, 10, -5, 2, 100)),
     Command("G83", Hole(10, 10, -5, 0, 100) \cup {<<"Q", mm(2)>>}),
     Command("M6", {<<"T", 2>>}),
     Command("G43", {})} \X {NoObj}

ConfigureInit ==
    /\ conf = Defaults
    /\ gcode = <<>>
    /\ drillRetractMode = Command(DRILL_RETRACT_MODE, {})
    /\ pc = "idle"
    /\ drill = NoDrill
    /\ emitted = <<>>
    /\ pecks = 0
    /\ call = Call("init", Str(<<>>), NoObj, "")
    /\ err = ""
    /\ export = NoExport
    /\ marks = <<>>
    /\ output = None
    /\ values = InitValues

ConfigureNext ==
    \/ \E args \in ArgLists : Configure(args) /\ UNCHANGED <<xvars, svars>>
    \/ \E in \in ConfigureInputs : ParseDrill(in[1], in[2]) /\ UNCHANGED <<xvars, svars>>
    \/ PeckStep /\ UNCHANGED <<xvars, svars>>
    \/ \E in \in ConfigureInputs : ParseIgnored(in[1], in[2]) /\ UNCHANGED <<xvars, svars>>

ConfigureSpec == ConfigureInit /\ [][ConfigureNext]_vars

\* the parts of export, in the order of the program
PartOrder ==
    <<"header", "preamble", "configuration", "tool_change", "tool_number",
      "pre_operation", "coolant_on", "path", "post_operation", "coolant_off",
      "final_position", "postamble">>

ExportTypeOK ==
    /\ conf \in ExportConfSet
    /\ export.phase \in {"header", "preamble", "configuration", "objects",
                         "pre_operation", "coolant_on", "path", "post_operation",
                         "coolant_off", "postamble", "boundaries", "str",
                         "done"}
    /\ Len(marks) = Len(gcode)
    /\ \A i \in 1..Len(marks) : \E k \in 1..Len(PartOrder) : marks[i].part = PartOrder[k]
    /\ output # None <=> export.phase = "done"

----------------------------------------------------------------------------
(* What the specification says of the stream, stated without the code *)

\* two Instructions are equal iff mnemonic and full parameter set match
SameInstruction(a, b) ==
    /\ a.type = "Command" /\ b.type = "Command"
    /\ a.Name = b.Name
    /\ \A l \in {p[1] : p \in a.Parameters \cup b.Parameters} :
          /\ Has(a.Parameters, l) /\ Has(b.Parameters, l)
          /\ Get(a.Parameters, l) = Get(b.Parameters, l)

\* the indices of the Instructions of g that carry param, restricted to the
\* mnemonics of names when names is given
Carriers(g, param, names) ==
    {i \in 1..Len(g) : /\ g[i].type = "Command"
                       /\ (names = {} \/ g[i].Name \in names)
                       /\ Has(g[i].Parameters, param)}

Highest(I) == CHOOSE i \in I : \A j \in I : j <= i

\* the full backward scan: the value of param on the nearest Instruction
\* that carries it, back to the first line, or default
NearestParameter(g, param, names, default) ==
    LET I == Carriers(g, param, names)
    IN  IF I = {} THEN default ELSE Some(Get(g[Highest(I)].Parameters, param))

\* the nearest Instruction whose mnemonic is in names, or default
NearestCommand(g, names, default) ==
    LET I == {i \in 1..Len(g) : g[i].type = "Command" /\ g[i].Name \in names}
    IN  IF I = {} THEN default ELSE Some(g[Highest(I)])

\* this step is a direct Gcode.append of an Instruction
AppendStep == call'.op = "append" /\ call'.line.type = "Command"

\* this step is parseObject handing a canned cycle to translateDrill
DrillStep ==
    /\ pc = "idle"
    /\ call'.op = "parseObject"
    /\ call'.line.Name \in CycleNames
    /\ HasCycleParameters(call'.line)

----------------------------------------------------------------------------
(* Claims *)

\* C1: Gcode.append with duplicate suppression enabled discards an
\* Instruction if and only if it has the mnemonic and the parameter set of
\* the line currently last in the stream; in every other case (suppression
\* disabled, empty stream, a last line that differs, as in A, B, A) the
\* Instruction is stored at the end of the stream.
C1_AppendDiscardsIffEqualToLast ==
    [][AppendStep =>
         LET line == call'.line
             equalToLast == Len(gcode) > 0 /\ SameInstruction(gcode[Len(gcode)], line)
         IN  /\ (gcode' = gcode) <=> (conf.remove_duplicates /\ equalToLast)
             /\ (gcode' # gcode) => (gcode' = Append(gcode, line))]_vars

\* an Instruction was appended right after an equal one and discarded
C1_Witness ==
    /\ call.op = "append" /\ call.line.type = "Command"
    /\ call.outcome = "duplicate"
    /\ conf.remove_duplicates
    /\ Len(gcode) > 0 /\ SameInstruction(gcode[Len(gcode)], call.line)

\* C2: with duplicate suppression enabled, header and comments disabled, the
\* second of two consecutive identical rapid moves without F of the same
\* operation, passed through addCommand, adds no line to the stream nor to
\* the rendered lines, whatever the rapid speeds of the operation, and no
\* comment line is rendered.
C2_IdenticalRapidsLeaveOneLine ==
    [][(/\ conf = ConfOf(TRUE, FALSE, FALSE)
        /\ call.op = "parseObject" /\ call.outcome = "added"
        /\ call.line.Name \in {"G0", "G00"} /\ ~Has(call.line.Parameters, "F")
        /\ call'.op = "parseObject" /\ call'.outcome = "added"
        /\ call'.line = call.line /\ call'.obj = call.obj)
       => /\ gcode' = gcode
          /\ Rendered(gcode', conf) = Rendered(gcode, conf)
          /\ \A i \in 1..Len(Rendered(gcode', conf)) :
                Rendered(gcode', conf)[i].type \notin {"Comment", "Header"}]_vars

\* C3: lastParameter returns the value of param on the nearest Instruction
\* of the whole stream that carries it (with its mnemonic in names when
\* names is given) and default when there is none; lastCommand returns the
\* nearest Instruction whose mnemonic is in names in the same way.
C3_LastParameterScansWholeStream ==
    \A default \in {None, Some(0)} :
       /\ \A param \in {"X", "Y", "Z", "F"}, names \in {{}, {"G0"}, {"G1"}} :
             lastParameter(gcode, param, names, -1, default)
                = NearestParameter(gcode, param, names, default)
       /\ \A names \in {{"G0"}, {"G1"}, {"G0", "G1"}} :
             lastCommand(gcode, names, -1, default)
                = NearestCommand(gcode, names, default)

\* C4: the position translateDrill reads is, for each of X, Y and Z, the
\* value of that axis on the most recent Instruction of the stream that set
\* it, and 0 when none did.
C4_DrillPositionIsLastPosition ==
    [][DrillStep =>
         \A a \in Axes :
            drill'.position[a] = NearestParameter(gcode, a, {}, Some(0))]_vars

\* C5: a canned cycle whose R is below its Z appends no line, makes no move,
\* leaves the retract mode unchanged and raises nothing: parseObject goes on
\* with the next instruction of the operation.
C5_RejectedCycleEmitsNothing ==
    [][(DrillStep /\ Get(call'.line.Parameters, "R") < Get(call'.line.Parameters, "Z"))
       => /\ gcode' = gcode
          /\ emitted' = <<>>
          /\ drillRetractMode' = drillRetractMode
          /\ err' = "" /\ pc' = "idle"
          /\ call'.outcome = "rejected"]_vars

\* a cycle was rejected (its position was read, no retractZ was set, nothing
\* was raised) and a later instruction of the path was added to the stream
C5_Witness ==
    /\ call.op = "parseObject" /\ call.outcome = "added"
    /\ drill # NoDrill /\ drill.retractZ = None
    /\ err = "" /\ Len(gcode) > 0

\* the mnemonic of the active retract mode: the configured default until a
\* G98 or G99 of the path replaces it
ModeName(mode) == IF mode.type = "Command" THEN mode.Name ELSE mode.text[1]

\* retractZ as the specification defines it
SpecRetractZ(mode, currentZ, drillR) ==
    IF ModeName(mode) = "G98" /\ currentZ > drillR THEN currentZ ELSE drillR

\* the current position: the last value each axis was given in the stream
CurrentPosition(g) ==
    [a \in Axes |-> NearestParameter(g, a, {}, Some(0))[1]]

\* the sequences of moves the specification allows for an accepted simple
\* cycle with parameters P from the position cur
SimpleCycleMoves(cur, retractZ, P) ==
    LET up   == <<Command("G0", {<<"Z", retractZ>>})>>
        over == <<Command("G0", {<<"X", Get(P, "X")>>, <<"Y", Get(P, "Y")>>})>>
        body == <<Command("G0", {<<"Z", Get(P, "R")>>}),
                  Command("G1", {<<"Z", Get(P, "Z")>>, <<"F", Get(P, "F")>>}),
                  Command("G0", {<<"Z", retractZ>>})>>
    IN  {a \o b \o body :
            a \in (IF cur["Z"] < retractZ THEN {<<>>, up} ELSE {<<>>}),
            b \in (IF cur["X"] # Get(P, "X") \/ cur["Y"] # Get(P, "Y")
                   THEN {<<>>, over} ELSE {<<>>})}

\* the feed moves among the calls out
Feeds(out) == {i \in 1..Len(out) : out[i].Name = "G1"}

\* the latest operation is a canned cycle given to translateDrill
CycleCall ==
    /\ call.op = "parseObject"
    /\ call.line.Name \in CycleNames
    /\ HasCycleParameters(call.line)

\* C6: retractZ is the current Z when the active retract mode is G98 (the
\* configured default, or set by a G98 of the path) and the current Z is
\* above R, and R in every other case.
C6_RetractZFollowsActiveMode ==
    [][(/\ DrillStep
        /\ Get(call'.line.Parameters, "R") >= Get(call'.line.Parameters, "Z")
        /\ drill'.position["Z"] # None)
       => drill'.retractZ =
             Some(SpecRetractZ(drillRetractMode, drill'.position["Z"][1],
                               Get(call'.line.Parameters, "R")))]_vars

\* C7: an accepted simple cycle emits, in this order and nothing else, a
\* rapid to retractZ only if the current Z is below retractZ, a rapid to
\* (X, Y) only if the hole is not at the current X and Y, a rapid to R, one
\* feed move to Z at F, a rapid to retractZ; from (0, 0, 0) in G99 mode the
\* cycle X10 Y10 Z-5 R2 F100 emits G0 Z2, G0 X10 Y10, G0 Z2, G1 Z-5 F100,
\* G0 Z2.
C7_SimpleCycleMoves ==
    [][(/\ DrillStep
        /\ call'.line.Name = "G81"
        /\ Get(call'.line.Parameters, "R") >= Get(call'.line.Parameters, "Z"))
       => LET P   == call'.line.Parameters
              cur == CurrentPosition(gcode)
              retractZ == SpecRetractZ(drillRetractMode, cur["Z"], Get(P, "R"))
          IN  /\ err' = ""
              /\ emitted' \in SimpleCycleMoves(cur, retractZ, P)
              /\ (/\ P = Hole(10, 10, -5, 2, 100)
                  /\ cur = [a \in Axes |-> 0]
                  /\ ModeName(drillRetractMode) = "G99")
                 => emitted' = <<Command("G0", {<<"Z", mm(2)>>}),
                                 Command("G0", {<<"X", mm(10)>>, <<"Y", mm(10)>>}),
                                 Command("G0", {<<"Z", mm(2)>>}),
                                 Command("G1", {<<"Z", mm(-5)>>, <<"F", 100>>}),
                                 Command("G0", {<<"Z", mm(2)>>})>>]_vars

\* C8: the peck loop terminates for every accepted peck cycle: each
\* iteration that stays in the loop lowers nextStopZ, which the loop
\* condition keeps at or above Z.
C8_PeckLoopTerminates ==
    [][(pc = "peck" /\ pc' = "peck")
       => /\ drill'.nextStopZ < drill.nextStopZ
          /\ drill'.nextStopZ >= Get(call.line.Parameters, "Z")]_vars

\* C9: when the expansion of an accepted peck cycle with Q > 0 is complete,
\* it holds a feed move, and its last feed move targets exactly Z.
C9_LastFeedReachesDepth ==
    (/\ CycleCall
     /\ call.line.Name = "G83" /\ Has(call.line.Parameters, "Q")
     /\ Get(call.line.Parameters, "Q") > 0
     /\ call.outcome = "translated")
    => /\ Feeds(emitted) # {}
       /\ Get(emitted[Highest(Feeds(emitted))].Parameters, "Z")
             = Get(call.line.Parameters, "Z")

\* C10: no move of the expansion of a canned cycle, simple, dwell or peck,
\* complete or under way, targets a Z below the Z of the cycle.
C10_NoMoveBelowDepth ==
    CycleCall
    => \A i \in 1..Len(emitted) :
          Has(emitted[i].Parameters, "Z")
          => Get(emitted[i].Parameters, "Z") >= Get(call.line.Parameters, "Z")

\* a peck cycle whose Q does not divide the depth is complete: it made
\* chip clearance moves between R and Z and a last feed move to Z
C10_Witness ==
    /\ CycleCall /\ call.line.Name = "G83" /\ call.outcome = "translated"
    /\ Get(call.line.Parameters, "Q") > 0
    /\ \E i \in 1..Len(emitted) :
          /\ emitted[i].Name = "G0" /\ Has(emitted[i].Parameters, "Z")
          /\ Get(emitted[i].Parameters, "Z") < Get(call.line.Parameters, "R")
          /\ Get(emitted[i].Parameters, "Z") > Get(call.line.Parameters, "Z")
    /\ Feeds(emitted) # {}
    /\ Get(emitted[Highest(Feeds(emitted))].Parameters, "Z")
          = Get(call.line.Parameters, "Z")
    /\ (Get(call.line.Parameters, "R") - Get(call.line.Parameters, "Z"))
          % Get(call.line.Parameters, "Q") # 0

----------------------------------------------------------------------------
(* The text of an export, read against the stream it was made from *)

\* the lines of the text
Out == output[1]

\* the line of the stream that the i-th line of the text was made from
Src(i) == Rendered(gcode, conf)[i]

SpindleOn == {"M3", "M03", "M4", "M04"}

\* the places of the written parameters of a line that carry the letter
TokensWith(line, letter) ==
    {k \in 1..Len(line.tokens) : line.tokens[k].letter = letter}

Clamp(v, lo, hi) == IF v < lo THEN lo ELSE IF v > hi THEN hi ELSE v

\* a spindle-on Instruction with S=rpm is the source of the i-th line
SpindleLine(i) ==
    /\ Src(i).type = "Command" /\ Src(i).Name \in SpindleOn
    /\ Has(Src(i).Parameters, "S")

\* C11: a spindle-on Instruction (M3/M03/M4/M04) with S=rpm is rendered
\* without letter S and with letter P carrying the integer
\* floor(clamp(rpm, minRpm, maxRpm) * 100 / maxRpm), within 0..100 and
\* written as an integer with no decimal part at every precision; rpm=9000
\* with the range 6000..12000 is rendered as P75.
C11_SpindlePercentIsInteger ==
    output # None =>
       \A i \in 1..Len(Out) :
          SpindleLine(i) =>
             LET rpm == Get(Src(i).Parameters, "S")
                 pct == (Clamp(rpm, MIN_SPINDLE_SPEED, MAX_SPINDLE_SPEED) * 100)
                           \div MAX_SPINDLE_SPEED
             IN  /\ TokensWith(Out[i], "S") = {}
                 /\ Cardinality(TokensWith(Out[i], "P")) = 1
                 /\ \A k \in TokensWith(Out[i], "P") :
                       /\ ~Out[i].tokens[k].neg
                       /\ Out[i].tokens[k].int = pct
                       /\ Out[i].tokens[k].int \in 0..100
                       /\ Out[i].tokens[k].frac = <<>>
                       /\ rpm = 9000 => Out[i].tokens[k].int = 75

\* C12: a spindle-on Instruction whose rpm is below the maximum is rendered
\* as the rpm in percent of the maximum rpm: with the maximum of 12000 rpm,
\* M3 S3000 is the line M3 P25 and M3 S3600 the line M3 P30.
C12_SlowSpindlePercentOfMaximum ==
    output # None =>
       \A i \in 1..Len(Out) :
          (SpindleLine(i) /\ Get(Src(i).Parameters, "S") < MAX_SPINDLE_SPEED) =>
             LET rpm == Get(Src(i).Parameters, "S")
                 P(n) == [letter |-> "P", kind |-> "fixed", neg |-> FALSE,
                          int |-> n, frac |-> <<>>]
             IN  /\ Out[i].tokens = <<P((rpm * 100) \div MAX_SPINDLE_SPEED)>>
                 /\ (Src(i).Name = "M3" /\ rpm = 3000) => Out[i].tokens = <<P(25)>>
                 /\ (Src(i).Name = "M3" /\ rpm = 3600) => Out[i].tokens = <<P(30)>>

PositionLetters == {"X", "Y", "Z", "I", "J", "R", "Q"}

\* the written parameter of a line for a letter it carries once
TokenOf(line, letter) == line.tokens[CHOOSE k \in TokensWith(line, letter) : TRUE]

\* the line was made from the rapid move G0 X10 Y20 Z30
IsG0X10Y20Z30(i) ==
    /\ Src(i).type = "Command" /\ Src(i).Name = "G0"
    /\ {<<"X", mm(10)>>, <<"Y", mm(20)>>, <<"Z", mm(30)>>} \subseteq Src(i).Parameters

\* C13: for every configured precision p, every position value (X, Y, Z, I,
\* J, R, Q) and every feed value (F) of a rendered Instruction line has
\* exactly p digits after the decimal point: G0 X10 Y20 Z30 in millimetres is
\* written X10.000 Y20.000 Z30.000 at precision 3 and X10.00 Y20.00 Z30.00 at
\* precision 2.
C13_PrecisionDigits ==
    output # None =>
       \A i \in 1..Len(Out) :
          /\ \A k \in 1..Len(Out[i].tokens) :
                Out[i].tokens[k].letter \in PositionLetters \cup {"F"}
                => /\ Out[i].tokens[k].kind = "fixed"
                   /\ Len(Out[i].tokens[k].frac) = conf.precision
          /\ (IsG0X10Y20Z30(i) /\ conf.units = "mm" /\ conf.precision \in {2, 3})
             => LET zeros == [d \in 1..conf.precision |-> 0]
                    V(l, n) == [letter |-> l, kind |-> "fixed", neg |-> FALSE,
                                int |-> n, frac |-> zeros]
                IN  /\ TokenOf(Out[i], "X") = V("X", 10)
                    /\ TokenOf(Out[i], "Y") = V("Y", 20)
                    /\ TokenOf(Out[i], "Z") = V("Z", 30)

\* at precision 2 a text holds the line of G0 X10 Y20 Z30 with X10.00 and a
\* feed value with two decimals, and an arc with I5.00 and Z-0.50
C13_Witness ==
    /\ output # None /\ conf.precision = 2
    /\ \E i \in 1..Len(Out) :
          /\ IsG0X10Y20Z30(i)
          /\ TokenOf(Out[i], "X").int = 10 /\ TokenOf(Out[i], "X").frac = <<0, 0>>
          /\ TokensWith(Out[i], "F") # {}
          /\ Len(TokenOf(Out[i], "F").frac) = 2
    /\ \E i \in 1..Len(Out) :
          /\ TokensWith(Out[i], "I") # {}
          /\ TokenOf(Out[i], "I").int = 5 /\ TokenOf(Out[i], "I").frac = <<0, 0>>
          /\ TokenOf(Out[i], "Z").neg
          /\ TokenOf(Out[i], "Z").int = 0 /\ TokenOf(Out[i], "Z").frac = <<5, 0>>

\* C14: with line numbers enabled, the n-th rendered line of the output (n
\* counted from 0 over all rendered lines, comment lines included) is
\* prefixed with N followed by start + n * increment; with start 10 and
\* increment 2 the 19th rendered line begins with N46.
C14_LineNumbersCountEveryLine ==
    (output # None /\ conf.line_numbers) =>
       /\ \A n \in 1..Len(Out) :
             Out[n].number = Some(conf.line_start + (n - 1) * conf.line_increment)
       /\ (conf.line_start = 10 /\ conf.line_increment = 2 /\ Len(Out) >= 19)
          => Out[19].number = Some(46)

\* the number of lines of the kind in a sequence of lines
CountOf(lines, kind) == Cardinality({i \in 1..Len(lines) : lines[i].type = kind})

\* C15: the rendered output contains a Comment line only if comments are
\* enabled and a Header line only if the header is enabled, and the two
\* toggles are independent (disabling comments never hides a header line,
\* disabling the header never hides a comment line); Instruction lines and
\* raw passthrough lines are rendered under every setting of the two toggles.
C15_CommentAndHeaderToggles ==
    output # None =>
       /\ \A i \in 1..Len(Out) :
             /\ Out[i].type = "Comment" => conf.comments
             /\ Out[i].type = "Header" => conf.header
       /\ conf.header => CountOf(Out, "Header") = CountOf(gcode, "Header")
       /\ conf.comments => CountOf(Out, "Comment") = CountOf(gcode, "Comment")
       /\ CountOf(Out, "Command") = CountOf(gcode, "Command")
       /\ CountOf(Out, "str") = CountOf(gcode, "str")

\* a text made with the header enabled and the comments disabled from a
\* stream that holds lines of the four kinds: it has the header lines, the
\* Instructions and the raw lines, and no comment
C15_Witness ==
    /\ output # None /\ conf.header /\ ~conf.comments
    /\ \A kind \in {"Command", "str", "Header", "Comment"} : CountOf(gcode, kind) > 0
    /\ CountOf(Out, "Header") = CountOf(gcode, "Header")
    /\ CountOf(Out, "Comment") = 0
    /\ Len(Out) = Len(gcode) - CountOf(gcode, "Comment")

----------------------------------------------------------------------------
(* The stream of an export, read against the parts that filled it *)

\* the phases of an export in the order the specification gives them: the
\* parts that belong to an operation make one phase
PhaseRank(part) ==
    IF part = "header" THEN 1
    ELSE IF part = "preamble" THEN 2
    ELSE IF part = "configuration" THEN 3
    ELSE IF part = "final_position" THEN 5
    ELSE IF part = "postamble" THEN 6
    ELSE 4

\* the places of the stream filled by the part of the object
Places(part, obj) == {i \in 1..Len(marks) : marks[i] = Part(part, obj)}

\* the lines of g at the places of I, in order
RECURSIVE LinesAt(_, _, _)
LinesAt(g, I, i) ==
    IF i > Len(g) THEN <<>>
    ELSE IF i \in I THEN <<g[i]>> \o LinesAt(g, I, i + 1)
    ELSE LinesAt(g, I, i + 1)

\* the lines a part appended for an object, the comments left out
OutputOf(part, obj) ==
    LinesAt(gcode, {i \in Places(part, obj) : gcode[i].type # "Comment"}, 1)

\* the unit selector of the setup block
UnitSelector == IF conf.units = "mm" THEN "G21" ELSE "G20"

\* the setup block is written
SetupDone == export.phase \notin {"header", "preamble", "configuration"}

Processed(i) == export.objects[i].hasPath /\ export.objects[i].Active

\* the operations before the i-th object that had a tool
ToolsBefore(i) ==
    {j \in 1..(i - 1) : Processed(j) /\ export.objects[j].hasToolController}

\* the tool-change part of export is over for the i-th object
ToolChangeDone(i) ==
    /\ i \in 1..Len(export.objects) /\ Processed(i)
    /\ export.phase \notin {"header", "preamble", "configuration"}
    /\ i < export.obj \/ (i = export.obj /\ export.phase # "objects")

\* the tool-change output the configuration asks for
ToolChangeLines ==
    IF conf.tool_change.custom
    THEN StrLines(conf.tool_change.lines)
    ELSE <<Command(conf.pause, {})>>

\* C17: during Postprocessor.export, tool-change output (the configured
\* custom gcode when one is configured, otherwise the pause instruction) is
\* appended for an operation if and only if the operation's tool differs from
\* that of the previous operation that had a tool; it is appended before
\* every other line of the new operation, none is appended before the first
\* operation, and none when the tool is unchanged.
C17_ToolChangeOnNewTool ==
    \A i \in 1..Len(export.objects) :
       ToolChangeDone(i) =>
          LET obj     == export.objects[i]
              changed == /\ obj.hasToolController
                         /\ ToolsBefore(i) # {}
                         /\ export.objects[Highest(ToolsBefore(i))].FullName
                               # obj.FullName
          IN  /\ OutputOf("tool_change", i)
                    = IF changed THEN ToolChangeLines ELSE <<>>
              /\ \A a \in Places("tool_change", i), b \in 1..Len(marks) :
                    (marks[b].obj = i /\ marks[b].part # "tool_change") => a < b

\* the current command of the path is a tool change and tool changes are handled
AtM6 == InPath /\ CurrentCmd.Name \in {"M6", "M06"} /\ conf.tool_change.on

\* the step ends the stream with the tool-change output
EndsWithToolChange ==
    LET n == Len(ToolChangeLines)
    IN  /\ Len(gcode') >= Len(gcode) + n
        /\ SubSeq(gcode', Len(gcode') - n + 1, Len(gcode')) = ToolChangeLines

\* C18: with tool-change handling enabled and the default allow-list, an M6
\* instruction met in an operation's path produces tool-change output in the
\* stream at that point: the pause mnemonic M76 by default, or the lines of
\* the configured custom gcode.
C18_M6ProducesToolChange ==
    [][(AtM6 /\ conf.commands = GCODE_COMMANDS) => EndsWithToolChange]_vars

\* the coolant part of export is over for the i-th object
OperationDone(i) ==
    /\ i \in 1..Len(export.objects) /\ Processed(i)
    /\ export.phase \notin {"header", "preamble", "configuration"}
    /\ i < export.obj

\* every line of part a of the i-th object is before every line of part b
Before(a, b, i) ==
    \A k \in Places(a, i), l \in Places(b, i) : k < l

\* C19: for each processed operation, when its coolant mode is not 'None',
\* exactly one coolant-on instruction taken from the mist/flood table is
\* appended after the pre-operation lines and before the path lines, and
\* exactly one coolant-off instruction after the post-operation lines; when
\* the mode is 'None' neither is appended.
C19_CoolantOnAndOff ==
    \A i \in 1..Len(export.objects) :
       OperationDone(i) =>
          LET mode == export.objects[i].CoolantMode
          IN  /\ OutputOf("coolant_on", i) =
                    IF mode = "None" THEN <<>>
                    ELSE <<Command(GCODE_COOLANT[Lower[mode]], {})>>
              /\ OutputOf("coolant_off", i) =
                    IF mode = "None" THEN <<>>
                    ELSE <<Command(GCODE_COOLANT["off"], {})>>
              /\ mode # "None" => GCODE_COOLANT[Lower[mode]] # GCODE_COOLANT["off"]
              /\ Before("pre_operation", "coolant_on", i)
              /\ Before("coolant_on", "path", i)
              /\ Before("path", "coolant_off", i)
              /\ Before("post_operation", "coolant_off", i)
              /\ \A k \in Places("coolant_on", i) \cup Places("coolant_off", i),
                    l \in 1..Len(marks) : marks[l].obj > i => k < l

\* two operations are done, one cooled by flood and one by mist, and the
\* first of them switched its coolant on and off before the second began
C19_Witness ==
    /\ export.phase = "done"
    /\ \E i, j \in 1..Len(export.objects) :
          /\ i < j /\ OperationDone(i) /\ OperationDone(j)
          /\ {export.objects[i].CoolantMode, export.objects[j].CoolantMode}
                = {"Flood", "Mist"}
          /\ Places("coolant_on", i) # {} /\ Places("coolant_off", i) # {}
          /\ Places("coolant_on", j) # {} /\ Places("coolant_off", j) # {}

\* the current command of the path is none of those parseObject knows
AtUnknown ==
    /\ InPath
    /\ CurrentCmd.Name \notin conf.commands
    /\ CurrentCmd.Name \notin {"G98", "G99"} \cup CycleNames
    /\ CurrentCmd.Name # "message"
    /\ CurrentCmd.Name \notin DOMAIN ParenInner

\* C20: in parseObject, an instruction whose mnemonic is not in the
\* allow-list and is not a retract-mode mnemonic, a canned cycle, a message
\* or a parenthesized comment leaves the stream and the retract mode
\* unchanged, raises nothing, and the loop goes on to the next instruction
\* of the operation.
C20_UnknownInstructionDropped ==
    [][AtUnknown =>
          /\ gcode' = gcode
          /\ drillRetractMode' = drillRetractMode
          /\ err' = "" /\ pc' = "idle"
          /\ export' = [export EXCEPT !.cmd = @ + 1]]_vars

\* G43 of a path was dropped and the arc that follows it is in the stream
C20_Witness ==
    /\ export.phase = "path" /\ export.cmd >= 3
    /\ CurrentObj.Commands[export.cmd - 2].Name = "G43"
    /\ CurrentObj.Commands[export.cmd - 1].Name = "G3"
    /\ call.line = CurrentObj.Commands[export.cmd - 1]
    /\ gcode[Len(gcode)].type = "Command"
    /\ gcode[Len(gcode)].Name = "G3"
    /\ \A i \in 1..Len(gcode) : gcode[i].Name # "G43"

\* the current command of the path sets the retract mode
AtRetractMode ==
    /\ InPath
    /\ CurrentCmd.Name \in {"G98", "G99"}
    /\ CurrentCmd.Name \notin conf.commands
    /\ conf.translate_drill_cycles

AtSpindleOn ==
    /\ InPath
    /\ CurrentCmd.Name \in {"M3", "M03", "M4", "M04"}
    /\ CurrentCmd.Name \in conf.commands

\* the wait the configuration asks for after the spindle is switched on
SpindleWait ==
    IF conf.spindle_wait > 0
    THEN Command("G4", {<<"S", conf.spindle_wait>>})
    ELSE Command("M400", {})

\* the step leaves the spindle-on instruction in the stream, the wait next
SpindleOnThenWait ==
    /\ Len(gcode') > Len(gcode)
    /\ Len(gcode') >= 2
    /\ gcode'[Len(gcode') - 1].type = "Command"
    /\ gcode'[Len(gcode') - 1].Name = CurrentCmd.Name
    /\ gcode'[Len(gcode')] = SpindleWait

\* C22: after every spindle-on instruction (M3/M03/M4/M04) passed through
\* from an operation's path, the very next line appended to the stream is a
\* dwell G4 S<wait> when the configured spindle wait is greater than 0, and
\* the wait-for-completion instruction M400 when the configured wait is 0.
C22_WaitAfterSpindleOn ==
    [][AtSpindleOn => SpindleOnThenWait]_vars

\* the mnemonics of the motion instructions, zero-padded ones and arcs included
MotionNames == {"G0", "G00", "G1", "G01", "G2", "G02", "G3", "G03"}

\* the positions the motion instructions of g visit on an axis
Visited(g, a) ==
    {Get(g[i].Parameters, a) :
        i \in {k \in 1..Len(g) : /\ g[k].type = "Command"
                                 /\ g[k].Name \in MotionNames
                                 /\ Has(g[k].Parameters, a)}}

\* the travel span on an axis: maximum minus minimum of the visited positions
Span(g, a) ==
    IF Visited(g, a) = {} THEN 0
    ELSE LET hi == CHOOSE v \in Visited(g, a) : \A w \in Visited(g, a) : w <= v
             lo == CHOOSE v \in Visited(g, a) : \A w \in Visited(g, a) : v <= w
         IN  hi - lo

\* checkBoundaries has run on the stream with a machine configured
Checked ==
    /\ export.phase = "api" /\ export.report # None
    /\ conf.machine # None

\* C23: checkBoundaries reports a violation for exactly those axes whose
\* replayed travel span (maximum minus minimum of the absolute positions that
\* the stream's motion instructions visit on that axis) exceeds that axis's
\* limit; a path whose positions all lie within a span not larger than the
\* limit is never reported, wherever that span lies relative to the origin.
C23_ReportedAxesExceedSpan ==
    Checked =>
       export.report[1].axes =
          {a \in Axes : Span(gcode, a) > mm(BOUNDARIES[conf.machine[1]][a])}

\* C24: the boundary check returns True when no axis exceeds its limit and
\* False when at least one axis exceeds it, for every stream and every valid
\* machine envelope.
C24_CheckReturnsVerdict ==
    Checked =>
       export.report[1].result =
          IF export.report[1].axes = {} THEN "True" ELSE "False"

\* the path of the boundaries test: G01 X100 Y-100.5 Z-1, then G02 Y260
TestPath ==
    <<Command("G01", {<<"X", mm(100)>>, <<"Y", -201>>, <<"Z", mm(-1)>>}),
      Command("G02", {<<"Y", mm(260)>>})>>

\* C25: the boundary replay updates the per-axis position for every motion
\* instruction that carries an axis value, including zero-padded mnemonics
\* and arc moves: the replayed extents cover every visited position, and the
\* path G01 X100 Y-100.5 Z-1 followed by G02 Y260 is reported as exceeding
\* the A350 envelope on Y (span 360.5, limit 350).
C25_ReplayFollowsEveryMotion ==
    Checked =>
       /\ \A a \in Axes : \A v \in Visited(gcode, a) :
             export.report[1].lo[a] <= v /\ v <= export.report[1].hi[a]
       /\ (gcode = TestPath /\ conf.machine = Some("A350"))
             => "Y" \in export.report[1].axes

\* the machines of --machine, and none
Machines == {None} \cup {Some(m) : m \in DOMAIN BOUNDARIES}

\* C26: checkBoundaries never changes the stream, the retract mode or the
\* configuration, and the text produced by export is identical whether the
\* boundary check is enabled or disabled and whatever its outcome, including
\* when no valid machine name is configured: the step of export that checks
\* the boundaries changes nothing but the report and goes on to the text,
\* and the text is the one any other setting of the check would give.
C26_BoundaryCheckIsAdvisory ==
    /\ [][At("boundaries") =>
            /\ UNCHANGED <<gcode, conf, drillRetractMode, pc, err, marks>>
            /\ export'.phase = "str"]_vars
    /\ [](output # None =>
            \A b \in BOOLEAN, m \in Machines :
               output[1] = GcodeStr(gcode, [conf EXCEPT !.boundaries_check = b,
                                                        !.machine = m]))

\* an export whose job exceeds the build area of its machine has its text
C26_Witness ==
    /\ export.phase = "done" /\ output # None
    /\ conf.boundaries_check /\ conf.machine = Some("original")
    /\ export.report # None /\ "Z" \in export.report[1].axes
    /\ Len(output[1]) > 0

\* the triple a text of --boundaries stands for
CustomTriple == [t \in {"50,400,10"} |-> [X |-> 50, Y |-> 400, Z |-> 10]]

\* BOUNDARIES as the arguments determine it
ExpectedBoundaries(args) ==
    IF args.boundaries # None THEN CustomTriple[args.boundaries[1]]
    ELSE IF args.machine # None
    THEN [k \in {"X", "Y", "Z"} |-> SNAPMAKER_MACHINES[args.machine[1]][k]]
    ELSE [X |-> -1, Y |-> -1, Z |-> -1]

\* C27: after Snapmaker.process_arguments succeeds, BOUNDARIES equals the
\* custom triple when --boundaries is given (also when --machine is given
\* with it), otherwise the (X, Y, Z) limits of the machine selected with
\* --machine, otherwise the initial value (-1, -1, -1).
C27_BoundariesFromArguments ==
    (call.op = "process_arguments" /\ call.outcome = "True")
       => values.BOUNDARIES = ExpectedBoundaries(call.line)

\* C28: at the start of every call to Postprocessor.export, once the
\* argument string is handled, the stream holds no line produced by an
\* earlier export, for every sequence of export calls on the same
\* Postprocessor and for every argument string, the empty one included.
C28_StreamFreshPerExport ==
    export.phase = "header" => gcode = <<>>

\* C29: an export never stops on an exception that nothing catches: every
\* instruction of every operation is emitted, translated or dropped, also a
\* cycle lacking one of X, Y, Z, R, F, a dwell without P, a peck without Q
\* and a coolant mode outside the table
C29_NoUncaughtError == err = ""

\* the attribute each negating option names
Negated ==
    [flag \in {"--no-header", "--no-comments", "--no-line-numbers",
               "--keep-duplicates", "--no-translate-drill-cycles",
               "--no-tool-change", "--no-tool-number",
               "--no-boundaries-check"} |->
        IF flag = "--no-header" THEN "header"
        ELSE IF flag = "--no-comments" THEN "comments"
        ELSE IF flag = "--no-line-numbers" THEN "line_numbers"
        ELSE IF flag = "--keep-duplicates" THEN "remove_duplicates"
        ELSE IF flag = "--no-translate-drill-cycles" THEN "translate_drill_cycles"
        ELSE IF flag = "--no-tool-change" THEN "tool_change"
        ELSE IF flag = "--no-tool-number" THEN "tool_number"
        ELSE "boundaries_check"]

\* the options of the configuration: translate_drill_cycle is none
Options == DOMAIN Defaults \ {"translate_drill_cycle"}

Off(option) == IF option = "tool_change" THEN ToolChange(FALSE) ELSE FALSE

\* the configuration when each negating option turns off the option it
\* names and nothing else
RECURSIVE Named(_, _)
Named(c, args) ==
    IF args = <<>> THEN c
    ELSE IF Head(args) \in DOMAIN Negated
    THEN Named([c EXCEPT ![Negated[Head(args)]] = Off(Negated[Head(args)])],
               Tail(args))
    ELSE Named(StoreFlag(c, Head(args)), Tail(args))

\* C30: after configure each negating option has turned off the option it
\* names and left every other option as it was: --no-translate-drill-cycles
\* makes translate_drill_cycles false, so that no cycle is expanded by
\* parseObject afterwards, and --no-tool-number makes tool_number false and
\* leaves tool_change
C30_NegatingOptionsTurnOffTheirOption ==
    /\ call.op = "configure" =>
          \A option \in Options : conf[option] = Named(Defaults, call.line.text)[option]
    /\ (call.op = "parseObject" /\ call.line.Name \in CycleNames
            /\ ~conf.translate_drill_cycle)
          => call.outcome = "ignored"

\* the rapid move to the hole of the cycle with parameters P
HoleMove(P) == Command("G0", {<<"X", Get(P, "X")>>, <<"Y", Get(P, "Y")>>})

\* the calls out hold the rapid move to the hole
MovesToHole(out, P) == \E i \in 1..Len(out) : out[i] = HoleMove(P)

\* C31: translateDrill emits the rapid move to the hole (X, Y) of an accepted
\* cycle if and only if the X of the hole differs from the current X and the
\* Y of the hole differs from the current Y; when one axis only differs, it
\* emits no such move.
C31_HoleMoveIffBothAxesDiffer ==
    [][(/\ DrillStep
        /\ Get(call'.line.Parameters, "R") >= Get(call'.line.Parameters, "Z"))
       => LET P   == call'.line.Parameters
              cur == CurrentPosition(gcode)
          IN  MovesToHole(emitted', P)
                 <=> (cur["X"] # Get(P, "X") /\ cur["Y"] # Get(P, "Y"))]_vars

\* the step is parseObject translating an accepted dwell cycle of the path
DwellStep ==
    /\ InPath
    /\ CurrentCmd.Name = "G82" /\ CurrentCmd.Name \notin conf.commands
    /\ conf.translate_drill_cycles
    /\ HasCycleParameters(CurrentCmd) /\ Has(CurrentCmd.Parameters, "P")
    /\ Get(CurrentCmd.Parameters, "R") >= Get(CurrentCmd.Parameters, "Z")
    /\ export'.cmd = export.cmd + 1

\* the lines a step has appended to the stream
Appended == SubSeq(gcode', Len(gcode) + 1, Len(gcode'))

\* in the sequence of Instructions s the only feed move is feed, the only
\* dwell is dwell, and the dwell comes right after the feed move
FeedThenDwell(s, feed, dwell) ==
    \E k \in 1..(Len(s) - 1) :
       /\ s[k] = feed /\ s[k + 1] = dwell
       /\ \A j \in 1..Len(s) :
             /\ s[j].Name \in {"G1", "G01"} => j = k
             /\ s[j].Name \in {"G4", "G04"} => j = k + 1

\* a line of the text made from a dwell Instruction that carries S
DwellLine(i) ==
    /\ Src(i).type = "Command" /\ Src(i).Name \in {"G4", "G04"}
    /\ Has(Src(i).Parameters, "S")

\* C32: the body of an accepted dwell cycle (G82) is one feed move to Z at
\* F, followed at once by one dwell G4 whose S is the P of the cycle, in the
\* moves translateDrill makes and in the lines it appends; in the text the S
\* of a dwell is P written as it is, in seconds, whatever the unit of the
\* output: neither the conversion of a speed nor that of a length applies.
C32_DwellBodyAndSeconds ==
    /\ [][DwellStep =>
            LET P     == CurrentCmd.Parameters
                feed  == Command("G1", {<<"Z", Get(P, "Z")>>, <<"F", Get(P, "F")>>})
                dwell == Command("G4", {<<"S", Get(P, "P")>>})
            IN  /\ err' = ""
                /\ FeedThenDwell(emitted', feed, dwell)
                /\ FeedThenDwell(Appended, feed, dwell)]_vars
    /\ [](output # None =>
            \A i \in 1..Len(Out) :
               DwellLine(i) =>
                  Out[i].tokens =
                     <<[letter |-> "S", kind |-> "fixed", neg |-> FALSE,
                        int  |-> Get(Src(i).Parameters, "S"),
                        frac |-> [d \in 1..conf.precision |-> 0]]>>)

\* the text of an export in inches holds the dwell of a G82 with P2, written
\* S2 right after the feed move of the cycle
C32_Witness ==
    /\ output # None /\ conf.units = "in"
    /\ \E i \in 2..Len(Out) :
          /\ DwellLine(i) /\ Get(Src(i).Parameters, "S") = 2
          /\ TokenOf(Out[i], "S").int = 2
          /\ Src(i - 1).type = "Command" /\ Src(i - 1).Name = "G1"
          /\ \E k \in 1..Len(export.objects) : export.objects[k] = Dwell

\* the latest operation is a peck cycle with Q > 0 given to translateDrill
PeckCall ==
    /\ CycleCall
    /\ call.line.Name = "G83" /\ Has(call.line.Parameters, "Q")
    /\ Get(call.line.Parameters, "Q") > 0

\* the depths fed by the calls of out before the i-th
FedBefore(out, i) ==
    {Get(out[k].Parameters, "Z") : k \in {f \in Feeds(out) : f < i}}

\* a feed move of out that is not the last one
Intermediate(out, k) == k \in Feeds(out) /\ \E j \in Feeds(out) : j > k

\* C33: in a peck cycle with Q > 0 each intermediate peck is followed by a
\* rapid move up to R, then by a rapid move down to the depth just fed plus
\* Q/2; every rapid move of the expansion that goes below R comes after a
\* feed move and stops strictly above the deepest depth fed before it, so
\* that no rapid move enters material no feed move has cut.
C33_PeckReentryAboveFedDepth ==
    PeckCall =>
       LET P == call.line.Parameters
           R == Get(P, "R")
           Q == Get(P, "Q")
       IN  /\ \A k \in 1..Len(emitted) :
                 Intermediate(emitted, k) =>
                    /\ k + 2 <= Len(emitted)
                    /\ emitted[k + 1] = Command("G0", {<<"Z", R>>})
                    /\ emitted[k + 2].Name = "G0"
                    /\ \A p \in emitted[k + 2].Parameters : p[1] = "Z"
                    /\ Has(emitted[k + 2].Parameters, "Z")
                    /\ 2 * Get(emitted[k + 2].Parameters, "Z")
                          = 2 * Get(emitted[k].Parameters, "Z") + Q
           /\ \A i \in 1..Len(emitted) :
                 (/\ emitted[i].Name = "G0" /\ Has(emitted[i].Parameters, "Z")
                  /\ Get(emitted[i].Parameters, "Z") < R)
                 => \E deepest \in FedBefore(emitted, i) :
                       /\ \A z \in FedBefore(emitted, i) : deepest <= z
                       /\ Get(emitted[i].Parameters, "Z") > deepest

\* a peck cycle with Q > 0 is complete with two feed moves at least: the
\* first one is followed by the rapid move to R and by the rapid move down
\* to half a peck above it
C33_Witness ==
    /\ PeckCall /\ call.outcome = "translated" /\ err = ""
    /\ \E k \in 1..Len(emitted) :
          /\ Intermediate(emitted, k)
          /\ emitted[k + 1] = Command("G0", {<<"Z", Get(call.line.Parameters, "R")>>})
          /\ emitted[k + 2] =
                Command("G0", {<<"Z", Get(emitted[k].Parameters, "Z")
                                        + Get(call.line.Parameters, "Q") \div 2>>})
          /\ Get(emitted[k + 2].Parameters, "Z") < Get(call.line.Parameters, "R")

\* this step is parseObject handing an allowed instruction to addCommand
AddStep == pc = "idle" /\ call'.op = "parseObject" /\ call'.outcome = "added"

\* the stream as Gcode.append leaves it at line 414, when addCommand has
\* made its Command and has not yet looked at the rapid speeds
AsAppended ==
    GcodeAppend(gcode, conf, Command(call'.line.Name, call'.line.Parameters))

\* C34: every parameter of an Instruction is added before the Instruction is
\* appended: a line that is in the stream keeps its mnemonic and its
\* parameters, so the lines of the stream as append left it are the lines at
\* the same places once addCommand is over, and the lines that were in the
\* stream before a step of addCommand, translateDrill or parseObject are
\* the same after it.
C34_LinesNeverChangeOnceAppended ==
    [][/\ \A i \in 1..Len(gcode) : i <= Len(gcode') /\ gcode'[i] = gcode[i]
       /\ AddStep =>
             \A i \in 1..Len(AsAppended) :
                i <= Len(gcode') /\ gcode'[i] = AsAppended[i]]_vars

\* the F a rapid move without F is to receive from the rapid speeds of the
\* tool controller of obj, as a set of parameters: empty for another
\* instruction, for a rapid move that carries F and without rapid speeds
ExpectedFeed(name, P, obj) ==
    IF name \notin {"G0", "G00"} \/ Has(P, "F") \/ ~obj.hasToolController THEN {}
    ELSE IF Has(P, "X") \/ Has(P, "Y")
    THEN IF Has(P, "Z") THEN {<<"F", Min(obj.VertRapid, obj.HorizRapid)>>}
         ELSE {<<"F", obj.HorizRapid>>}
    ELSE IF Has(P, "Z") THEN {<<"F", obj.VertRapid>>}
    ELSE {}

\* the step is parseObject handing an allowed instruction of the path to
\* addCommand
AllowedStep ==
    /\ InPath /\ CurrentCmd.Name \in conf.commands
    /\ export'.cmd = export.cmd + 1

\* the step is translateDrill at work on a cycle of the path: its start, or
\* an iteration of its peck loop
TranslateStep ==
    /\ export.phase = "path" /\ err = ""
    /\ \/ pc = "peck"
       \/ /\ InPath /\ CurrentCmd.Name \in CycleNames
          /\ CurrentCmd.Name \notin conf.commands /\ conf.translate_drill_cycles
    /\ gcode' # gcode

\* the parameters of a line but F
WithoutF(P) == {p \in P : p[1] # "F"}

\* C35: a rapid move without F that addCommand adds to the stream receives
\* as F the horizontal rapid speed when it has X or Y and no Z, the smaller
\* of the two rapid speeds when it has X or Y and Z, the vertical one when
\* it has Z only; a rapid move with F and every other instruction keep
\* their parameters, and no F is added without rapid speeds. The rapid
\* moves that translateDrill makes get F by the same rule, its feed moves
\* and its dwell are appended as they are.
C35_RapidMovesInheritRapidSpeed ==
    [][/\ (AllowedStep /\ Appended # <<>>) =>
             Appended[1] = Command(CurrentCmd.Name,
                                   CurrentCmd.Parameters
                                      \cup ExpectedFeed(CurrentCmd.Name,
                                                        CurrentCmd.Parameters,
                                                        CurrentObj))
       /\ TranslateStep =>
             \A i \in 1..Len(Appended) :
                LET line == Appended[i]
                    made == IF line.Name = "G0"
                            THEN Command("G0", WithoutF(line.Parameters))
                            ELSE line
                IN  /\ line.type = "Command"
                    /\ \E k \in 1..Len(emitted') : emitted'[k] = made
                    /\ line.Parameters =
                          made.Parameters
                             \cup ExpectedFeed(made.Name, made.Parameters, call'.obj)]_vars

\* the stream holds G0 X10 Y20 Z30 with the smaller rapid speed, a rapid
\* move of a cycle to the hole with the horizontal one and one to R with the
\* vertical one, a rapid move that has kept its own F, and a rapid move of
\* an operation without tool controller that has none
C35_Witness ==
    /\ export.phase = "done"
    /\ \E i \in 1..Len(gcode) :
          gcode[i] = Command("G0", {<<"X", mm(10)>>, <<"Y", mm(20)>>,
                                    <<"Z", mm(30)>>, <<"F", 600>>})
    /\ \E i \in 1..Len(gcode) :
          gcode[i] = Command("G0", {<<"X", mm(10)>>, <<"Y", mm(10)>>, <<"F", 1000>>})
    /\ \E i \in 1..Len(gcode) :
          gcode[i] = Command("G0", {<<"Z", mm(2)>>, <<"F", 600>>})
    /\ \E i \in 1..Len(gcode) :
          gcode[i] = Command("G0", {<<"Z", mm(5)>>, <<"F", 300>>})
    /\ \E i \in 1..Len(gcode) :
          /\ gcode[i].type = "Command" /\ gcode[i].Name = "G0"
          /\ ~Has(gcode[i].Parameters, "F")

\* the i-th object is an operation whose Active property is false
InactiveOperation(i) ==
    /\ i \in 1..Len(export.objects)
    /\ export.objects[i].hasPath /\ ~export.objects[i].Active

\* export is at the i-th object and leaves it without having processed it
Skips(i) ==
    /\ At("objects") /\ export.obj = i /\ InactiveOperation(i)
    /\ export'.obj = i + 1

\* the tool that tool-change detection compares with, after the objects
\* that export has gone through: that of the last active operation with a
\* tool controller
PreviousTool ==
    LET done == {j \in 1..Len(export.objects) :
                   ToolChangeDone(j) /\ export.objects[j].hasToolController}
    IN  IF done = {} THEN None ELSE Some(export.objects[Highest(done)].FullName)

CycleEnds ==
    /\ pc' = "idle"
    /\ call'.op = "parseObject" /\ call'.line.Name \in CycleNames
    /\ HasCycleParameters(call'.line)
    /\ Get(call'.line.Parameters, "R") >= Get(call'.line.Parameters, "Z")
    /\ \/ pc = "peck"
       \/ pc = "idle" /\ call'.outcome \in {"translated", "raised"} /\ drill' # drill

\* the last line of the stream g is a rapid move along Z alone, to z
EndsWithRapidTo(g, z) ==
    /\ Len(g) > 0
    /\ g[Len(g)].type = "Command" /\ g[Len(g)].Name = "G0"
    /\ WithoutF(g[Len(g)].Parameters) = {<<"Z", z>>}

\* C37: after any accepted canned cycle (R >= Z), simple, dwell or peck,
\* duplicates removed or not, the last line of the stream is a rapid move
\* to Z = retractZ, and retractZ >= R >= Z.
C37_CycleEndsAtRetractHeight ==
    [][CycleEnds =>
          /\ drill'.retractZ # None
          /\ drill'.retractZ[1] >= Get(call'.line.Parameters, "R")
          /\ EndsWithRapidTo(gcode', drill'.retractZ[1])]_vars

----------------------------------------------------------------------------
(* Snapmaker.export_common, snapmaker_post.py *)

\* In this section gcode is the local list of export_common, its lines the
\* strings appended to it, and output the string returned.  The functions
\* of Path.Post.UtilsExport and Path.Post.UtilsParse belong to FreeCAD: what
\* they append depends on values and on the object, so that each group of
\* calls either appends one line for each function, in the order of the
\* calls, or nothing.  The GUI is not up: the editor is not shown.

\* what the given functions of the library append
Library(functions) ==
    {<<>>, [i \in 1..Len(functions) |-> Str(<<functions[i]>>)]}

\* export_common has not returned and is at the given place
InCommon(phase) == export.phase = phase /\ output = None

\* the variables export_common leaves alone
cvars == <<conf, drillRetractMode, pc, drill, emitted, pecks, call, err, values>>

\* the test made on the first object only: a plausible slip
CommonCheck_FirstOnly ==
    /\ InCommon("common_check")
    /\ IF export.obj = 1 /\ export.obj <= Len(export.objects)
          /\ ~CurrentObj.hasPath
       THEN /\ output' = Some(<<>>)
            /\ export' = [export EXCEPT !.phase = "returned"]
       ELSE /\ export' = [export EXCEPT !.phase = "common_header", !.obj = 0]
            /\ UNCHANGED output
    /\ UNCHANGED <<gcode, marks, cvars>>

\* lines 344-348, one turn of the first loop: an object without Path makes
\* export_common return the empty string; line 351, check_canned_cycles,
\* when the loop is over
CommonCheck ==
    /\ InCommon("common_check")
    /\ IF export.obj > Len(export.objects)
       THEN /\ export' = [export EXCEPT !.phase = "common_header", !.obj = 0]
            /\ UNCHANGED output
       ELSE IF ~CurrentObj.hasPath
       THEN /\ output' = Some(<<>>)
            /\ export' = [export EXCEPT !.phase = "returned"]
       ELSE /\ export' = [export EXCEPT !.obj = @ + 1]
            /\ UNCHANGED output
    /\ UNCHANGED <<gcode, marks, cvars>>

\* lines 352-354 and output_header, lines 311-337, without a thumbnail
CommonHeader ==
    /\ InCommon("common_header")
    /\ gcode' = IF values.OUTPUT_HEADER
                THEN gcode \o <<Str(<<"Header Start">>),
                                 Str(<<"header_type: cnc">>),
                                 Str(<<"machine: ", values.MACHINE_NAME>>),
                                 Str(<<"Post Processor: ", "snapmaker_post">>),
                                 Str(<<"Cam File: ", "<None>">>),
                                 Str(<<"Output Time: ", "now">>),
                                 Str(<<>>)>>
                ELSE gcode
    /\ marks' = Mark(marks, gcode', Part("header", 0))
    /\ export' = [export EXCEPT !.phase = "common_preamble"]
    /\ UNCHANGED <<output, cvars>>

\* lines 355-359
CommonPreamble ==
    /\ InCommon("common_preamble")
    /\ \E lines \in Library(<<"output_safetyblock", "output_tool_list",
                               "output_preamble", "output_motion_mode",
                               "output_units">>) :
          gcode' = gcode \o lines
    /\ marks' = Mark(marks, gcode', Part("preamble", 0))
    /\ export' = [export EXCEPT !.phase = "common_objects", !.obj = 1]
    /\ UNCHANGED <<output, cvars>>

\* lines 361-374, one turn of the second loop: an inactive operation is
\* skipped, the output of another one is made by the library
CommonObject ==
    /\ InCommon("common_objects") /\ export.obj <= Len(export.objects)
    /\ IF ~CurrentObj.Active
       THEN UNCHANGED gcode
       ELSE \E lines \in Library(<<"output_start_bcnc", "output_preop",
                                    "output_coolant_on", "parse_a_group",
                                    "output_postop", "output_coolant_off">>) :
               gcode' = gcode \o lines
    /\ marks' = Mark(marks, gcode', Part("path", export.obj))
    /\ export' = [export EXCEPT !.obj = @ + 1]
    /\ UNCHANGED <<output, cvars>>

\* lines 376-387
CommonPostamble ==
    /\ InCommon("common_objects") /\ export.obj > Len(export.objects)
    /\ \E lines \in Library(<<"output_return_to", "output_end_bcnc",
                               "output_postamble_header", "output_tool_return",
                               "output_safetyblock", "output_postamble">>) :
          gcode' = gcode \o lines
    /\ marks' = Mark(marks, gcode', Part("postamble", 0))
    /\ export' = [export EXCEPT !.phase = "common_join"]
    /\ UNCHANGED <<output, cvars>>

\* lines 389 and 398: final = "".join(gcode); return final
CommonJoin ==
    /\ InCommon("common_join")
    /\ output' = Some([i \in 1..Len(gcode) |-> gcode[i].text])
    /\ export' = [export EXCEPT !.phase = "returned"]
    /\ UNCHANGED <<gcode, marks, cvars>>

\* process_postables calls export_common(objects, filename) on a Snapmaker
\* as __init__ leaves it; --no-header of the shared arguments clears
\* OUTPUT_HEADER
CommonInit ==
    /\ conf = Defaults
    /\ gcode = <<>>
    /\ drillRetractMode = Command(DRILL_RETRACT_MODE, {})
    /\ pc = "idle"
    /\ drill = NoDrill
    /\ emitted = <<>>
    /\ pecks = 0
    /\ call = Call("export_common", Str(<<>>), NoObj, "")
    /\ err = ""
    /\ \E objects \in ObjectLists :
          export = [NoExport EXCEPT !.phase = "common_check", !.objects = objects,
                                    !.obj = 1]
    /\ marks = <<>>
    /\ output = None
    /\ \E header \in BOOLEAN : values = [InitValues EXCEPT !.OUTPUT_HEADER = header]

CommonNext ==
    \/ CommonCheck
    \/ CommonHeader
    \/ CommonPreamble
    \/ CommonObject
    \/ CommonPostamble
    \/ CommonJoin

CommonSpec == CommonInit /\ [][CommonNext]_vars

\* export_common was given an object without Path
SomeObjectHasNoPath ==
    \E i \in 1..Len(export.objects) : ~export.objects[i].hasPath

\* C38: if any object passed to Snapmaker.export_common has no Path, the
\* function returns the empty string and makes no line for any object, the
\* valid ones included (no header, preamble or operation output): the
\* check of all objects is over before the first line is made.
C38_NoPathMeansNoOutput ==
    /\ SomeObjectHasNoPath =>
          /\ gcode = <<>> /\ marks = <<>>
          /\ export.phase \in {"common_check", "returned"}
          /\ output \in {None, Some(<<>>)}
          /\ export.phase = "returned" <=> output = Some(<<>>)
    /\ gcode # <<>> => export.phase # "common_check"

\* export_common has returned the empty string for a valid operation
\* followed by an object without Path, with the header asked for
C38_Witness ==
    /\ export.phase = "returned" /\ output = Some(<<>>)
    /\ export.objects = <<Profile, NotAPath>>
    /\ export.obj = 2
    /\ values.OUTPUT_HEADER

====
